---- MODULE Spec2Model ----
(***************************************************************************)
(* The authorization protocol of the browser extension: the content        *)
(* script's message listener, the service worker's message handlers        *)
(* (executeCommand, createSession, getPendingPermission,                   *)
(* permissionDecision), requestPermission with its pending approvals, and  *)
(* the execute-tool handler of the content script in the target tab.       *)
(*                                                                         *)
(* A command's fields are drawn at the point where the handler reads them: *)
(* a command rejected at the nonce check has no token or body drawn, which *)
(* is the same as every token and body leading to that rejection.          *)
(***************************************************************************)
EXTENDS Integers, Sequences, FiniteSets, TLC

\* ------------------------------------------------------------- bounds
\* Sessions (and tokens) ever created.
MaxSessions == 2
\* Tabs ever created by commands, besides the tab the user opened.
MaxTabs == 2
\* Pending approvals ever created.
MaxApprovals == 2
\* Pending approvals ever created where the page sends every kind of command.
MaxWideApprovals == 1
\* Steps of the clock.
MaxTicks == 2
\* Entries the nonce caches keep. The source keeps 10000 (usedNonces.size >
\* 10000); the model runs the same code with a cache this small so that an
\* eviction happens within the bounds.
NonceCacheLimit == 1

\* ------------------------------------------------------------- values
\* Falsy values of the message fields.
NoNonce == 0
NoToken == 0
NoSession == 0
NoTab == 0
NoRequestId == 0
\* `tabId === 1` is read as "no tab given".
PlaceholderTabId == 1
\* The tab the user opened by hand; tabs created later get the next ids.
UserTab == PlaceholderTabId + 1
\* The literal 'default-session': an id no session ever has.
DefaultSession == MaxSessions + 1
\* A token that was never issued.
BogusToken == MaxSessions + 1

ApprovalTimeoutMs == 30000
TokenLifetimeMs == 86400000

AppOrigin == [scheme |-> "https", host |-> "app.com"]
LocalOrigin == [scheme |-> "http", host |-> "localhost:3000"]
PlainOrigin == [scheme |-> "http", host |-> "a.com"]
CallerOrigins == {AppOrigin, LocalOrigin, PlainOrigin}

BankUrl == [scheme |-> "https", host |-> "bank.com", path |-> "/login"]
ShopUrl == [scheme |-> "https", host |-> "shop.com", path |-> "/"]
\* A string `new URL()` throws on.
BadUrl == [scheme |-> "", host |-> "", path |-> "not a url"]
Urls == {BankUrl, ShopUrl}

\* new URL(url).origin
UrlOrigin(u) == [scheme |-> u.scheme, host |-> u.host]
UrlParses(u) == u.scheme # ""

NonceInputs == 0..(NonceCacheLimit + 1)
TickSteps == {ApprovalTimeoutMs, TokenLifetimeMs}
\* Line 655: sensitiveActions.
SensitiveTools == {"click", "type", "evaluate"}

\* ------------------------------------------------------------- state
VARIABLES
  sessions,             \* SessionManager: sessionId -> session
  sessionCallerOrigins, \* sessionId -> origin
  usedNonces,           \* service worker: Set in insertion order
  csNonces,             \* content script: Set in insertion order
  sessionTokens,        \* token -> [origin, createdAt, expiresAt]
  pendingRequests,      \* requestId -> [origin, timestamp, tabId]
  pendingPermissions,   \* Map in insertion order: pending approvals
  policies,             \* PermissionManager: (caller, target, action)
  tabs,                 \* browser: tabId -> url of its page
  activeTab,            \* browser: the active tab of the current window
  now,                  \* Date.now()
  ticks,                \* steps of the clock taken
  nextSession,          \* ids not yet given out
  nextToken,
  nextPermission,
  step,                 \* what the task that just ran did
  addCalls,             \* history: (session, tab) of permitted creations
  acceptedAgo,          \* history: nonce -> nonces accepted since
  attested,             \* history: sessionId -> sender origin of its creation
  tokenSession,         \* history: token -> session it was issued with
  approved              \* history: requests the user approved

swVars == <<sessions, sessionCallerOrigins, usedNonces, sessionTokens,
            pendingRequests, pendingPermissions, policies>>
envVars == <<tabs, activeTab, now, ticks>>
idVars == <<nextSession, nextToken, nextPermission>>
histVars == <<addCalls, acceptedAgo, attested, tokenSession, approved>>
vars == <<swVars, csNonces, envVars, idVars, step, histVars>>

\* ------------------------------------------------------------- records
NoOrigin == [scheme |-> "", host |-> ""]
\* The targetOrigin '*' of window.postMessage.
Wildcard == [scheme |-> "*", host |-> "*"]
NoRequest == [action |-> "none", callerOrigin |-> NoOrigin, targetOrigin |-> NoOrigin]
\* The fields of a browser-automator-command; a field not read stays blank.
BlankCmd == [origin |-> NoOrigin, nonce |-> NoNonce, requestId |-> NoRequestId,
             token |-> NoToken, type |-> "unread", sessionId |-> NoSession,
             tabId |-> NoTab, tool |-> "none", url |-> BadUrl]
NoStep == [kind |-> "none", cmd |-> BlankCmd, resp |-> "none", swAccepted |-> FALSE,
           ago |-> NonceCacheLimit + 1, effect |-> "none", tab |-> NoTab,
           request |-> NoRequest, sessionId |-> NoSession, executed |-> FALSE,
           pageOrigin |-> NoOrigin, allow |-> FALSE, remember |-> FALSE,
           sender |-> NoOrigin, permissionId |-> 0,
           expectedOrigin |-> NoOrigin, target |-> NoOrigin, token |-> NoToken]

NonceErrors == {"MissingNonce", "ReplayDetected", "InvalidNonce"}
TokenErrors == {"TokenRequired", "TokenInvalid", "TokenOriginMismatch"}
\* Responses that carry error and success:false (or an error payload).
ErrorResponses == NonceErrors \cup TokenErrors \cup
  {"InvalidCommand", "InsecureOrigin", "SessionRequired", "InvalidSession",
   "TabAccessDenied", "NoActiveTab", "PermissionDenied", "PermissionError",
   "ExecFailed", "ToolError", "OriginMismatch", "UnknownCommand", "Threw"}

\* ------------------------------------------------------------- collaborators
\* PermissionManager.isSecureOrigin
IsSecureOrigin(o) == o.scheme = "https" \/ o.host \in {"localhost", "localhost:3000", "127.0.0.1"}

\* SessionManager
NewSession(o) == [callerOrigin |-> o, tabIds |-> {}, grantedOrigins |-> {}]
HasSession(s) == s \in DOMAIN sessions
IsTabInSession(s, t) == HasSession(s) /\ t \in sessions[s].tabIds
AddTabToSession(ss, s, t) == IF s \in DOMAIN ss THEN [ss EXCEPT ![s].tabIds = @ \cup {t}] ELSE ss
IsOriginGrantedForSession(s, o) == HasSession(s) /\ o \in sessions[s].grantedOrigins
GrantOriginForSession(ss, s, o) == IF s \in DOMAIN ss THEN [ss EXCEPT ![s].grantedOrigins = @ \cup {o}] ELSE ss

\* PermissionManager
IsAllowed(req) == req \in policies
GrantPermission(req) == policies \cup {req}

\* ------------------------------------------------------------- nonces
InSeq(x, seq) == \E i \in 1..Len(seq) : seq[i] = x
\* usedNonces.add(nonce), then the cleanup that keeps the last entries.
\* Variant of the cleanup that keeps one entry fewer; C3 tells it apart.
KeepLastButOne(seq) == IF Len(seq) >= NonceCacheLimit THEN SubSeq(seq, Len(seq) - NonceCacheLimit + 2, Len(seq)) ELSE seq
KeepLast(seq) == IF Len(seq) > NonceCacheLimit THEN SubSeq(seq, Len(seq) - NonceCacheLimit + 1, Len(seq)) ELSE seq
\* Variant of the cleanup that deletes the newest entries; C31 tells it apart.
AddNonceKeepingOldest(seq, n) ==
  LET added == IF InSeq(n, seq) THEN seq ELSE Append(seq, n)
  IN IF Len(added) > NonceCacheLimit THEN SubSeq(added, 1, NonceCacheLimit) ELSE added
AddNonce(seq, n) == KeepLast(IF InSeq(n, seq) THEN seq ELSE Append(seq, n))
\* The content script's check (lines 49-69) and the service worker's (line 386).
\* Variant of the content script's check that lets every message through;
\* C35 tells it apart.
CsPassAlways(n) == TRUE
CsPass(n) == n # NoNonce /\ ~InSeq(n, csNonces)
SwPass(n) == n # NoNonce /\ ~InSeq(n, usedNonces)

\* History: how many nonces the service worker accepted since it accepted n
\* (saturating at the cache limit); Never when it has not accepted n.
Never == NonceCacheLimit + 1
Satur(k) == IF k >= NonceCacheLimit THEN NonceCacheLimit ELSE k + 1
NoteAccepted(n) == [m \in DOMAIN acceptedAgo |-> IF m = n THEN 0 ELSE IF acceptedAgo[m] = Never THEN Never ELSE Satur(acceptedAgo[m])]

\* ------------------------------------------------------------- tokens
\* Lines 443-468.
\* Variant of the validation without the expiry test; C4 tells it apart.
TokenCheckNoExpiry(tok, o) ==
  IF tok = NoToken THEN "TokenRequired"
  ELSE IF tok \notin DOMAIN sessionTokens THEN "TokenInvalid"
  ELSE IF sessionTokens[tok].origin # o THEN "TokenOriginMismatch"
  ELSE "ok"
\* Variant that refuses a token at the instant it expires; C19 tells it apart.
TokenCheckStrict(tok, o) ==
  IF tok = NoToken THEN "TokenRequired"
  ELSE IF tok \notin DOMAIN sessionTokens \/ sessionTokens[tok].expiresAt <= now THEN "TokenInvalid"
  ELSE IF sessionTokens[tok].origin # o THEN "TokenOriginMismatch"
  ELSE "ok"
TokenCheck(tok, o) ==
  IF tok = NoToken THEN "TokenRequired"
  ELSE IF tok \notin DOMAIN sessionTokens \/ sessionTokens[tok].expiresAt < now THEN "TokenInvalid"
  ELSE IF sessionTokens[tok].origin # o THEN "TokenOriginMismatch"
  ELSE "ok"
\* Variant with a 30 s lifetime; C18 tells it apart.
IssueTokenShort(o) == [origin |-> o, createdAt |-> now, expiresAt |-> now + ApprovalTimeoutMs]
\* Lines 425-430: sessionTokens.set.
IssueToken(o) == [origin |-> o, createdAt |-> now, expiresAt |-> now + TokenLifetimeMs]
TokenInputs == {NoToken, BogusToken} \cup DOMAIN sessionTokens
\* Session ids a command can name: none, the literal, or one given out.
SessionInputs == {NoSession, DefaultSession} \cup 1..(nextSession - 1)

\* ------------------------------------------------------------- permission
\* requestPermission, lines 286-301: how a request is resolved at once, or "ask".
\* Variant that matches a policy of any action; C13 tells it apart.
LevelAnyAction(req, sid) ==
  IF IsOriginGrantedForSession(sid, req.targetOrigin) THEN "session"
  ELSE IF \E q \in policies : q.callerOrigin = req.callerOrigin /\ q.targetOrigin = req.targetOrigin THEN "policy"
  ELSE "ask"
\* Variant that skips the policies; C12 tells it apart.
LevelSessionOnly(req, sid) == IF IsOriginGrantedForSession(sid, req.targetOrigin) THEN "session" ELSE "ask"
\* Variant that resolves every request at once; C8 tells it apart.
LevelOpen(req, sid) == "session"
Level(req, sid) ==
  IF IsOriginGrantedForSession(sid, req.targetOrigin) THEN "session"
  ELSE IF IsAllowed(req) THEN "policy"
  ELSE "ask"
\* Variant that asks the first session's grants; C11 tells it apart.
OrDefaultFirst(sid) == IF sid = NoSession THEN DefaultSession ELSE 1
\* `sessionId || 'default-session'`
OrDefault(sid) == IF sid = NoSession THEN DefaultSession ELSE sid
Request(action, caller, target) == [action |-> action, callerOrigin |-> caller, targetOrigin |-> target]
PendingIds == {pendingPermissions[i].id : i \in 1..Len(pendingPermissions)}
PendingOf(id) == pendingPermissions[CHOOSE i \in 1..Len(pendingPermissions) : pendingPermissions[i].id = id]
\* Variant in which the entry stays; C34 tells it apart.
WithoutKeeping(id) == pendingPermissions
\* pendingPermissions.delete(permissionId)
Without(id) == SelectSeq(pendingPermissions, LAMBDA p : p.id # id)
IsCreation(c) == c.type = "createTab" \/ (c.tool = "navigate" /\ c.tabId \in {NoTab, PlaceholderTabId})
PendingCreations == Cardinality({i \in 1..Len(pendingPermissions) : IsCreation(pendingPermissions[i].cmd)})
\* chrome.tabs.create gives the next unused tab id.
NewTab == UserTab + Cardinality(DOMAIN tabs)
CanCreateTab == Cardinality(DOMAIN tabs) + PendingCreations < 1 + MaxTabs

\* The session a permitted creation registers its tab with (lines 515, 586).
\* Variant registering every created tab with the first session; C2 tells it apart.
CreationSessionFirst(c) == IF c.sessionId = NoSession THEN NoSession ELSE 1
CreationSession(c) == c.sessionId

\* ------------------------------------------------------------- execution
\* The content script's execute-tool handler in the tab, lines 122-212, and
\* chrome.tabs.sendMessage, lines 694-712. `page` is the tab's page when the
\* handler runs, `res` what DomCore (or the message channel) does.
\* Line 696: the expectedOrigin of the execute-tool message; NoOrigin when
\* the tab has no url and the field is undefined.
ExpectedOrigin(tab) == IF UrlParses(tabs[tab]) THEN UrlOrigin(tabs[tab]) ELSE NoOrigin
\* Lines 129-212: the handler's reply to a message with this expectedOrigin
\* in a page; the comparison is made only when the field is there.
HandleTool(expected, page, res) ==
  IF expected # NoOrigin /\ expected # UrlOrigin(page) THEN "OriginMismatch" ELSE res
ToolResponse(tab, page, res) ==
  IF res = "ExecFailed" THEN "ExecFailed"
  ELSE HandleTool(ExpectedOrigin(tab), page, res)
ToolExecuted(tab, page, res) == ToolResponse(tab, page, res) \in {"ToolOk", "ToolError"}

\* Variant that drops the session of a command whose tool failed; C22 tells
\* it apart.
AfterToolDropping(ss, c, resp) ==
  IF resp \in {"ExecFailed", "ToolError"}
  THEN [s \in DOMAIN ss \ {c.sessionId} |-> ss[s]]
  ELSE ss
\* Lines 697-712: the sessions after the tool's response or error came back;
\* both only fill the payload.
AfterTool(ss, c, resp) == ss

\* What a permitted (or permission-free) command does: lines 513-522,
\* 585-593, 641-645 and 694-712. `ss` is the sessions map to start from.
Perform(st, c, tab, ss, page, res) ==
  IF IsCreation(c) THEN
    /\ tabs' = [t \in DOMAIN tabs \cup {NewTab} |-> IF t = NewTab THEN c.url ELSE tabs[t]]
    /\ activeTab' = NewTab
    /\ sessions' = AddTabToSession(ss, CreationSession(c), NewTab)
    /\ addCalls' = IF c.sessionId \in DOMAIN ss THEN addCalls \cup {<<c.sessionId, NewTab>>} ELSE addCalls
    /\ step' = [st EXCEPT !.resp = IF c.type = "createTab" THEN "TabCreated" ELSE "Navigated",
                          !.effect = "tabCreated", !.tab = NewTab]
  ELSE IF c.tool = "navigate" THEN
    /\ tabs' = [tabs EXCEPT ![tab] = c.url]
    /\ sessions' = ss
    /\ step' = [st EXCEPT !.resp = "Navigated", !.effect = "tabUpdated", !.tab = tab]
    /\ UNCHANGED <<activeTab, addCalls>>
  ELSE
    /\ tabs' = [tabs EXCEPT ![tab] = page]
    /\ sessions' = AfterTool(ss, c, ToolResponse(tab, page, res))
    /\ step' = [st EXCEPT !.resp = ToolResponse(tab, page, res),
                          !.effect = IF res = "ExecFailed" THEN "none" ELSE "toolDispatched",
                          !.tab = tab, !.executed = ToolExecuted(tab, page, res),
                          !.pageOrigin = UrlOrigin(page),
                          !.expectedOrigin = ExpectedOrigin(tab)]
    /\ UNCHANGED <<activeTab, addCalls>>

\* ------------------------------------------------------------- commands
OneHourMs == 3600000
Cmd(o, n, rid) == [BlankCmd EXCEPT !.origin = o, !.nonce = n, !.requestId = rid]
\* Variant that posts every response to '*'; C36 tells it apart.
ResponseTargetAny(c) == Wildcard
\* Lines 51-56, 63-68, 84-90, 111-116: the targetOrigin of the
\* browser-automator-response is the event.origin of the command.
ResponseTarget(c) == c.origin
CmdStep(c, resp) == [NoStep EXCEPT !.kind = "command", !.cmd = c, !.resp = resp,
                                   !.target = ResponseTarget(c)]
Idle == step.kind = "none"

\* Variant that forwards a command whose nonce was used before; C29 tells it apart.
AcceptReplayed(c) ==
  /\ Idle
  /\ c.nonce # NoNonce
  /\ csNonces' = AddNonce(csNonces, c.nonce)
  /\ usedNonces' = AddNonce(usedNonces, c.nonce)
  /\ acceptedAgo' = NoteAccepted(c.nonce)
\* Both nonce checks pass and both caches take the nonce (lines 72-79, 394-401).
Accept(c) ==
  /\ Idle
  /\ CsPass(c.nonce) /\ SwPass(c.nonce)
  /\ csNonces' = AddNonce(csNonces, c.nonce)
  /\ usedNonces' = AddNonce(usedNonces, c.nonce)
  /\ acceptedAgo' = NoteAccepted(c.nonce)
AcceptedStep(c, resp) == [CmdStep(c, resp) EXCEPT !.swAccepted = TRUE, !.ago = acceptedAgo[c.nonce]]

\* Variant that records the request and prunes nothing; C38 tells it apart.
TrackWithoutPruning(c) ==
  IF c.requestId # NoRequestId /\ c.tabId # NoTab
  THEN [r \in DOMAIN pendingRequests \cup {c.requestId} |->
          IF r = c.requestId THEN [origin |-> c.origin, timestamp |-> now, tabId |-> c.tabId]
          ELSE pendingRequests[r]]
  ELSE pendingRequests
\* Lines 470-485: the request is recorded and old records are pruned.
Track(c) ==
  IF c.requestId # NoRequestId /\ c.tabId # NoTab
  THEN LET added == [r \in DOMAIN pendingRequests \cup {c.requestId} |->
                       IF r = c.requestId THEN [origin |-> c.origin, timestamp |-> now, tabId |-> c.tabId]
                       ELSE pendingRequests[r]]
       IN [r \in {q \in DOMAIN added : ~(added[q].timestamp < now - OneHourMs)} |-> added[r]]
  ELSE pendingRequests

\* Content script, lines 49-69: missing or reused nonce; nothing is forwarded.
ContentScriptRejects(o, n, rid) ==
  /\ Idle
  /\ ~CsPass(n)
  /\ step' = CmdStep(Cmd(o, n, rid), IF n = NoNonce THEN "MissingNonce" ELSE "ReplayDetected")
  /\ UNCHANGED <<swVars, csNonces, envVars, idVars, histVars>>

\* Content script, lines 72-91: the nonce is taken, the command is no object.
ContentScriptInvalid(o, n, rid) ==
  /\ Idle
  /\ CsPass(n)
  /\ csNonces' = AddNonce(csNonces, n)
  /\ step' = CmdStep(Cmd(o, n, rid), "InvalidCommand")
  /\ UNCHANGED <<swVars, envVars, idVars, histVars>>

\* Service worker, lines 386-393: the forwarded nonce is missing or reused.
ServiceWorkerRejectsNonce(o, n, rid) ==
  /\ Idle
  /\ CsPass(n) /\ ~SwPass(n)
  /\ csNonces' = AddNonce(csNonces, n)
  /\ step' = CmdStep(Cmd(o, n, rid), "InvalidNonce")
  /\ UNCHANGED <<swVars, envVars, idVars, histVars>>

\* Variant that lets every origin connect; C17 tells it apart.
ConnectRefusedNever(o) == FALSE
\* Lines 411-418: the secure-origin check of connect.
ConnectRefused(o) == ~IsSecureOrigin(o)

\* Lines 407-440: connect.
Connect(o, n, rid, tok) ==
  LET c == [Cmd(o, n, rid) EXCEPT !.type = "connect", !.token = tok] IN
  /\ Accept(c)
  /\ IF ConnectRefused(o)
     THEN /\ step' = AcceptedStep(c, "InsecureOrigin")
          /\ UNCHANGED <<sessions, sessionCallerOrigins, sessionTokens, idVars, attested, tokenSession>>
     ELSE /\ nextSession <= MaxSessions
          /\ sessions' = [s \in DOMAIN sessions \cup {nextSession} |->
                            IF s = nextSession THEN NewSession(o) ELSE sessions[s]]
          /\ sessionCallerOrigins' = [s \in DOMAIN sessions \cup {nextSession} |->
                            IF s = nextSession THEN o ELSE sessionCallerOrigins[s]]
          /\ sessionTokens' = [t \in DOMAIN sessionTokens \cup {nextToken} |->
                            IF t = nextToken THEN IssueToken(o) ELSE sessionTokens[t]]
          /\ attested' = [s \in DOMAIN attested \cup {nextSession} |->
                            IF s = nextSession THEN o ELSE attested[s]]
          /\ tokenSession' = [t \in DOMAIN tokenSession \cup {nextToken} |->
                            IF t = nextToken THEN nextSession ELSE tokenSession[t]]
          /\ nextSession' = nextSession + 1
          /\ nextToken' = nextToken + 1
          /\ nextPermission' = nextPermission
          /\ step' = [AcceptedStep(c, "Connected") EXCEPT !.sessionId = nextSession, !.token = nextToken]
  /\ UNCHANGED <<pendingRequests, pendingPermissions, policies, envVars, addCalls, approved>>

\* Lines 443-468: a command other than connect with a failing token.
TokenRejected(o, n, rid, tok) ==
  LET c == [Cmd(o, n, rid) EXCEPT !.type = "notConnect", !.token = tok] IN
  /\ Accept(c)
  /\ TokenCheck(tok, o) # "ok"
  /\ step' = AcceptedStep(c, TokenCheck(tok, o))
  /\ UNCHANGED <<sessions, sessionCallerOrigins, sessionTokens, pendingRequests, pendingPermissions,
                 policies, envVars, idVars, addCalls, attested, tokenSession, approved>>

\* Lines 443-468: an execute command naming a session and a tab, with a
\* failing token; the handler of lines 552-714 is not reached.
TokenRejectedExecute(o, n, rid, tok, sid, tabId) ==
  LET c == [Cmd(o, n, rid) EXCEPT !.type = "execute", !.token = tok, !.sessionId = sid, !.tabId = tabId] IN
  /\ Accept(c)
  /\ TokenCheck(tok, o) # "ok"
  /\ step' = AcceptedStep(c, TokenCheck(tok, o))
  /\ UNCHANGED <<sessions, sessionCallerOrigins, sessionTokens, pendingRequests, pendingPermissions,
                 policies, envVars, idVars, addCalls, attested, tokenSession, approved>>

\* Line 716: a command of no known type.
UnknownCommand(o, n, rid, tok) ==
  LET c == [Cmd(o, n, rid) EXCEPT !.type = "other", !.token = tok] IN
  /\ Accept(c)
  /\ TokenCheck(tok, o) = "ok"
  /\ step' = AcceptedStep(c, "UnknownCommand")
  /\ UNCHANGED <<sessions, sessionCallerOrigins, sessionTokens, pendingRequests, pendingPermissions,
                 policies, envVars, idVars, addCalls, attested, tokenSession, approved>>

\* Variant that forgets the requestId while the command waits; C21 tells it apart.
WaitingUnnumbered(c) == [c EXCEPT !.nonce = NoNonce, !.token = NoToken, !.requestId = NoRequestId]
\* What the waiting command still reads once it resumes: not its nonce or token.
Waiting(c) == [c EXCEPT !.nonce = NoNonce, !.token = NoToken]

\* Variant in which a request allowed at once also grants its target origin
\* to the session; C28 tells it apart.
NegotiateGranting(st, c, tab, req, page, res) ==
  LET psid == OrDefault(c.sessionId)
      st1 == [st EXCEPT !.request = req, !.sessionId = psid]
  IN IF Level(req, psid) # "ask"
     THEN /\ Perform(st1, c, tab, GrantOriginForSession(sessions, psid, req.targetOrigin), page, res)
          /\ UNCHANGED <<pendingPermissions, nextPermission>>
     ELSE /\ nextPermission <= MaxApprovals
          /\ pendingPermissions' = Append(pendingPermissions,
                [id |-> nextPermission, request |-> req, sessionId |-> psid,
                 cmd |-> Waiting(c), tab |-> tab, createdAt |-> now])
          /\ nextPermission' = nextPermission + 1
          /\ step' = [st1 EXCEPT !.resp = "Pending"]
          /\ UNCHANGED <<sessions, tabs, activeTab, addCalls>>
\* `await requestPermission(...)` and what follows it: resolved at once
\* (lines 292-301), or a pending approval is stored and the command waits
\* (lines 303-315).
Negotiate(st, c, tab, req, page, res) ==
  LET psid == OrDefault(c.sessionId)
      st1 == [st EXCEPT !.request = req, !.sessionId = psid]
  IN IF Level(req, psid) # "ask"
     THEN /\ Perform(st1, c, tab, sessions, page, res)
          /\ UNCHANGED <<pendingPermissions, nextPermission>>
     ELSE /\ nextPermission <= MaxApprovals
          /\ pendingPermissions' = Append(pendingPermissions,
                [id |-> nextPermission, request |-> req, sessionId |-> psid,
                 cmd |-> Waiting(c), tab |-> tab, createdAt |-> now])
          /\ nextPermission' = nextPermission + 1
          /\ step' = [st1 EXCEPT !.resp = "Pending"]
          /\ UNCHANGED <<sessions, tabs, activeTab, addCalls>>

\* Lines 491-530: createTab.
CreateTab(o, n, rid, tok, sid, url) ==
  LET c == [Cmd(o, n, rid) EXCEPT !.type = "createTab", !.token = tok, !.sessionId = sid,
                                  !.url = IF sid = NoSession THEN BadUrl ELSE url] IN
  /\ Accept(c)
  /\ TokenCheck(tok, o) = "ok"
  /\ IF sid = NoSession \/ ~UrlParses(url)
     THEN /\ step' = AcceptedStep(c, IF sid = NoSession THEN "SessionRequired" ELSE "Threw")
          /\ UNCHANGED <<sessions, tabs, activeTab, addCalls, pendingPermissions, nextPermission>>
     ELSE /\ CanCreateTab
          /\ Negotiate(AcceptedStep(c, "none"), c, NoTab, Request("createTab", o, UrlOrigin(url)), BankUrl, "ToolOk")
  /\ UNCHANGED <<sessionCallerOrigins, sessionTokens, pendingRequests, policies, now, ticks,
                 nextSession, nextToken, attested, tokenSession, approved>>

\* Lines 531-551: listTabs.
ListTabs(o, n, rid, tok, sid) ==
  LET c == [Cmd(o, n, rid) EXCEPT !.type = "listTabs", !.token = tok, !.sessionId = sid] IN
  /\ Accept(c)
  /\ TokenCheck(tok, o) = "ok"
  /\ step' = AcceptedStep(c, IF sid = NoSession THEN "SessionRequired"
                             ELSE IF ~HasSession(sid) THEN "InvalidSession" ELSE "TabsListed")
  /\ UNCHANGED <<sessions, sessionCallerOrigins, sessionTokens, pendingRequests, pendingPermissions,
                 policies, envVars, idVars, addCalls, attested, tokenSession, approved>>

\* Lines 602-606: the tab an execute command works on.
ResolvedTab(tabId) == IF tabId \in {NoTab, PlaceholderTabId} THEN activeTab ELSE tabId
\* Variant without the ownership check; C20 tells it apart.
TabDeniedNever(sid, tab) == FALSE
\* Lines 608-618: the tab ownership check.
TabDenied(sid, tab) == tab # NoTab /\ sid # NoSession /\ ~IsTabInSession(sid, tab)

\* The choices Perform reads: only a dispatched tool reads `page` and `res`.
\* `races` are the pages the tab may have moved to since chrome.tabs.get.
Dispatches(c) == ~IsCreation(c) /\ c.tool # "navigate"
Pages(c, tab, races) == IF Dispatches(c) /\ tab \in DOMAIN tabs THEN {tabs[tab]} \cup races ELSE {BankUrl}
Results(c, results) == IF Dispatches(c) THEN results ELSE {"ToolOk"}

\* Lines 552-714: execute. The fields are drawn where the handler reads them.
Execute(o, n, rid, tok, sid, tabId, tool, url, page, res) ==
  LET invalid == sid # NoSession /\ ~HasSession(sid)
      creation == tool = "navigate" /\ tabId \in {NoTab, PlaceholderTabId}
      tab == ResolvedTab(tabId)
      early == invalid \/ (~creation /\ (TabDenied(sid, tab) \/ tab = NoTab))
      c == [Cmd(o, n, rid) EXCEPT !.type = "execute", !.token = tok, !.sessionId = sid,
                                  !.tabId = tabId,
                                  !.tool = IF invalid THEN "none" ELSE tool,
                                  !.url = IF early \/ tool # "navigate" THEN BadUrl ELSE url]
      st == AcceptedStep(c, "none")
      quiet == UNCHANGED <<sessions, tabs, activeTab, addCalls, pendingPermissions, nextPermission>>
  IN
  /\ Accept(c)
  /\ TokenCheck(tok, o) = "ok"
  /\ pendingRequests' = Track(c)
  /\ IF invalid
     THEN step' = [st EXCEPT !.resp = "InvalidSession"] /\ quiet
     ELSE IF creation
     THEN IF ~UrlParses(url)
          THEN step' = [st EXCEPT !.resp = "Threw"] /\ quiet
          ELSE CanCreateTab /\ Negotiate(st, c, NoTab, Request("navigate", o, UrlOrigin(url)), page, res)
     ELSE IF TabDenied(sid, tab)
     THEN step' = [st EXCEPT !.resp = "TabAccessDenied", !.tab = tab] /\ quiet
     ELSE IF tab = NoTab
     THEN step' = [st EXCEPT !.resp = "NoActiveTab"] /\ quiet
     ELSE IF tool = "navigate"
     THEN IF ~UrlParses(url)
          THEN step' = [st EXCEPT !.resp = "Threw"] /\ quiet
          ELSE Negotiate(st, c, tab, Request("navigate", o, UrlOrigin(url)), page, res)
     ELSE IF tool \in SensitiveTools
     THEN Negotiate(st, c, tab, Request(tool, o, UrlOrigin(tabs[tab])), page, res)
     ELSE Perform(st, c, tab, sessions, page, res) /\ UNCHANGED <<pendingPermissions, nextPermission>>
  /\ UNCHANGED <<sessionCallerOrigins, sessionTokens, policies, now, ticks,
                 nextSession, nextToken, attested, tokenSession, approved>>

\* ------------------------------------------------------------- approvals
\* The popup sends back the id and the sessionId it was given by
\* getPendingPermission (line 749).
PopupDecisions == {[permissionId |-> pendingPermissions[i].id, sessionId |-> pendingPermissions[i].sessionId] :
                     i \in 1..Len(pendingPermissions)}
\* Line 771: whether the decision writes a policy.
\* Variant that writes the policy on every approval; C14 tells it apart.
WritesPolicyAlways(allow, remember) == allow
\* Variant that writes the policy whenever remember is set; C9 tells it apart.
WritesPolicyOnRemember(allow, remember) == remember
WritesPolicy(allow, remember) == allow /\ remember
\* Line 763: the session the approval grants the origin to.
\* Variant that grants to the first session; C10 tells it apart.
GrantTargetFirst(sessionId, p) == 1
GrantTarget(sessionId, p) == sessionId

\* Variant in which a denial takes the origin back from the session; C15
\* tells it apart.
DecisionGrantsRevoking(allow, sessionId, p) ==
  IF allow /\ sessionId # NoSession
  THEN GrantOriginForSession(sessions, GrantTarget(sessionId, p), p.request.targetOrigin)
  ELSE IF sessionId \in DOMAIN sessions
  THEN [sessions EXCEPT ![sessionId].grantedOrigins = @ \ {p.request.targetOrigin}]
  ELSE sessions
\* Lines 761-768: the sessions after the decision's session-level grant.
DecisionGrants(allow, sessionId, p) ==
  IF allow /\ sessionId # NoSession
  THEN GrantOriginForSession(sessions, GrantTarget(sessionId, p), p.request.targetOrigin)
  ELSE sessions

\* Lines 755-783: permissionDecision for a pending approval, and the command
\* that waited for it resuming with the decision.
PermissionDecision(permissionId, allow, remember, sessionId, page, res) ==
  /\ Idle
  /\ permissionId \in PendingIds
  /\ LET p == PendingOf(permissionId)
         granted == DecisionGrants(allow, sessionId, p)
         st == [NoStep EXCEPT !.kind = "decision", !.cmd = p.cmd, !.request = p.request,
                              !.sessionId = p.sessionId, !.allow = allow, !.remember = remember,
                              !.target = ResponseTarget(p.cmd)]
     IN /\ policies' = IF WritesPolicy(allow, remember) THEN GrantPermission(p.request) ELSE policies
        /\ pendingPermissions' = Without(permissionId)
        /\ approved' = IF allow THEN approved \cup {[request |-> p.request, sessionId |-> p.sessionId]} ELSE approved
        /\ IF allow
           THEN Perform(st, p.cmd, p.tab, granted, page, res)
           ELSE /\ sessions' = granted
                /\ step' = [st EXCEPT !.resp = "PermissionDenied"]
                /\ UNCHANGED <<tabs, activeTab, addCalls>>
  /\ UNCHANGED <<sessionCallerOrigins, usedNonces, sessionTokens, pendingRequests, csNonces, now, ticks,
                 idVars, acceptedAgo, attested, tokenSession>>

\* Lines 781-782: a decision for an id that is not pending.
PermissionNotFound(permissionId) ==
  /\ Idle
  /\ permissionId \notin PendingIds
  /\ step' = [NoStep EXCEPT !.kind = "decision", !.resp = "PermissionNotFound",
                            !.permissionId = permissionId]
  /\ UNCHANGED <<swVars, csNonces, envVars, idVars, histVars>>

\* Variant that leaves the approval pending; C16 tells it apart.
RejectedKeeping(kind, id) ==
  LET p == PendingOf(id) IN
  /\ pendingPermissions' = pendingPermissions
  /\ step' = [NoStep EXCEPT !.kind = kind, !.cmd = p.cmd, !.request = p.request,
                            !.sessionId = p.sessionId, !.resp = "PermissionError",
                            !.target = ResponseTarget(p.cmd)]
  /\ UNCHANGED <<sessions, sessionCallerOrigins, usedNonces, sessionTokens, pendingRequests, policies,
                 csNonces, envVars, idVars, histVars>>
\* The waiting command after its approval was rejected (lines 524-529,
\* 595-600, 647-652, 683-690).
Rejected(kind, id) ==
  LET p == PendingOf(id) IN
  /\ pendingPermissions' = Without(id)
  /\ step' = [NoStep EXCEPT !.kind = kind, !.cmd = p.cmd, !.request = p.request,
                            !.sessionId = p.sessionId, !.resp = "PermissionError",
                            !.target = ResponseTarget(p.cmd)]
  /\ UNCHANGED <<sessions, sessionCallerOrigins, usedNonces, sessionTokens, pendingRequests, policies,
                 csNonces, envVars, idVars, histVars>>

\* Lines 329-334: the 30 s timer finds the approval still pending.
PermissionTimeout(id) ==
  /\ Idle
  /\ id \in PendingIds
  /\ now >= PendingOf(id).createdAt + ApprovalTimeoutMs
  /\ Rejected("timeout", id)

\* Lines 320-326: chrome.action.openPopup() fails.
PopupFailed(id) ==
  /\ Idle
  /\ id \in PendingIds
  /\ now = PendingOf(id).createdAt
  /\ Rejected("popupFailed", id)

\* Variant that returns the newest pending approval; C27 tells it apart.
GetPendingPermissionNewest ==
  /\ Idle
  /\ step' = IF Len(pendingPermissions) > 0
             THEN [NoStep EXCEPT !.kind = "query", !.resp = "Pending",
                                 !.permissionId = pendingPermissions[Len(pendingPermissions)].id,
                                 !.request = pendingPermissions[Len(pendingPermissions)].request,
                                 !.sessionId = pendingPermissions[Len(pendingPermissions)].sessionId]
             ELSE [NoStep EXCEPT !.kind = "query", !.resp = "null"]
  /\ UNCHANGED <<swVars, csNonces, envVars, idVars, histVars>>
\* Lines 734-754: getPendingPermission returns the first pending approval.
GetPendingPermission ==
  /\ Idle
  /\ step' = IF Len(pendingPermissions) > 0
             THEN [NoStep EXCEPT !.kind = "query", !.resp = "Pending",
                                 !.permissionId = pendingPermissions[1].id,
                                 !.request = pendingPermissions[1].request,
                                 !.sessionId = pendingPermissions[1].sessionId]
             ELSE [NoStep EXCEPT !.kind = "query", !.resp = "null"]
  /\ UNCHANGED <<swVars, csNonces, envVars, idVars, histVars>>

\* Lines 339-377: the createSession message.
CreateSession(sender, callerOrigin) ==
  /\ Idle
  /\ IF callerOrigin = NoOrigin \/ ~IsSecureOrigin(callerOrigin)
     THEN /\ step' = [NoStep EXCEPT !.kind = "createSession", !.sender = sender,
                        !.resp = IF callerOrigin = NoOrigin THEN "CallerOriginRequired" ELSE "InsecureOrigin"]
          /\ UNCHANGED <<sessions, sessionCallerOrigins, sessionTokens, idVars, attested, tokenSession>>
     ELSE /\ nextSession <= MaxSessions
          /\ sessions' = [s \in DOMAIN sessions \cup {nextSession} |->
                            IF s = nextSession THEN NewSession(callerOrigin) ELSE sessions[s]]
          /\ sessionCallerOrigins' = [s \in DOMAIN sessions \cup {nextSession} |->
                            IF s = nextSession THEN callerOrigin ELSE sessionCallerOrigins[s]]
          /\ sessionTokens' = [t \in DOMAIN sessionTokens \cup {nextToken} |->
                            IF t = nextToken THEN IssueToken(callerOrigin) ELSE sessionTokens[t]]
          /\ attested' = [s \in DOMAIN attested \cup {nextSession} |->
                            IF s = nextSession THEN sender ELSE attested[s]]
          /\ tokenSession' = [t \in DOMAIN tokenSession \cup {nextToken} |->
                            IF t = nextToken THEN nextSession ELSE tokenSession[t]]
          /\ nextSession' = nextSession + 1
          /\ nextToken' = nextToken + 1
          /\ nextPermission' = nextPermission
          /\ step' = [NoStep EXCEPT !.kind = "createSession", !.sender = sender,
                                    !.resp = "SessionCreated", !.sessionId = nextSession]
  /\ UNCHANGED <<usedNonces, pendingRequests, pendingPermissions, policies, csNonces, envVars,
                 addCalls, acceptedAgo, approved>>

\* ------------------------------------------------------------- environment
\* The clock moves on.
Tick(d) ==
  /\ Idle
  /\ ticks < MaxTicks
  /\ now' = now + d
  /\ ticks' = ticks + 1
  /\ UNCHANGED <<swVars, csNonces, tabs, activeTab, idVars, step, histVars>>

\* The page of a tab changes (the user, or the page itself, navigates).
TabNavigates(t, u) ==
  /\ Idle
  /\ t \in DOMAIN tabs /\ tabs[t] # u
  /\ tabs' = [tabs EXCEPT ![t] = u]
  /\ UNCHANGED <<swVars, csNonces, activeTab, now, ticks, idVars, step, histVars>>

\* Lines 122-212: the content script of tab t receives an execute-tool
\* message; `expected` is its expectedOrigin (NoOrigin: the field is
\* undefined, as line 696 sends it for a tab without url).
ExecuteTool(t, expected, tool, res) ==
  /\ Idle
  /\ t \in DOMAIN tabs
  /\ step' = [NoStep EXCEPT !.kind = "tool", !.tab = t,
                            !.cmd = [BlankCmd EXCEPT !.tool = tool],
                            !.resp = HandleTool(expected, tabs[t], res),
                            !.executed = HandleTool(expected, tabs[t], res) \in {"ToolOk", "ToolError"},
                            !.pageOrigin = UrlOrigin(tabs[t]),
                            !.expectedOrigin = expected]
  /\ UNCHANGED <<swVars, csNonces, envVars, idVars, histVars>>

\* Lines 21-29: a browser-automator-init message is forwarded as it is; no
\* branch of the service worker's listener knows its type, and what comes
\* back is posted to '*'.
BrowserAutomatorInit ==
  /\ Idle
  /\ step' = [NoStep EXCEPT !.kind = "init", !.resp = "undefined", !.target = Wildcard]
  /\ UNCHANGED <<swVars, csNonces, envVars, idVars, histVars>>

\* Lines 30-38 and 731-733: a wake-up message pings the service worker, and
\* the outcome is posted to '*'.
WakeUp ==
  /\ Idle
  /\ step' = [NoStep EXCEPT !.kind = "wakeUp", !.resp = "WokenUp", !.target = Wildcard]
  /\ UNCHANGED <<swVars, csNonces, envVars, idVars, histVars>>

\* The user activates another tab, or leaves the window.
SwitchTab(t) ==
  /\ Idle
  /\ t \in DOMAIN tabs \cup {NoTab} /\ t # activeTab
  /\ activeTab' = t
  /\ UNCHANGED <<swVars, csNonces, tabs, now, ticks, idVars, step, histVars>>

\* Variant in which the token store outlives the restart; C25 tells it apart.
RestartKeepingTokens ==
  /\ Idle
  /\ sessions' = <<>>
  /\ sessionCallerOrigins' = <<>>
  /\ usedNonces' = <<>>
  /\ pendingRequests' = <<>>
  /\ pendingPermissions' = <<>>
  /\ policies' = {}
  /\ step' = [NoStep EXCEPT !.kind = "restart"]
  /\ UNCHANGED <<sessionTokens, csNonces, envVars, idVars, histVars>>
\* The browser stops the service worker and starts it again: the module-level
\* stores of lines 235-269 are built anew, empty, and so is the
\* PermissionManager, which keeps its policies in memory (ADR, lines 619-621).
\* The content scripts live in their pages and keep their nonces; ids are
\* random, so none is given out again.
Restart ==
  /\ Idle
  /\ sessions' = <<>>
  /\ sessionCallerOrigins' = <<>>
  /\ usedNonces' = <<>>
  /\ sessionTokens' = <<>>
  /\ pendingRequests' = <<>>
  /\ pendingPermissions' = <<>>
  /\ policies' = {}
  /\ step' = [NoStep EXCEPT !.kind = "restart"]
  /\ UNCHANGED <<csNonces, envVars, idVars, histVars>>

\* The response callback has run (lines 109-116); the next task may start.
TaskDone ==
  /\ ~Idle
  /\ step' = NoStep
  /\ UNCHANGED <<swVars, csNonces, envVars, idVars, histVars>>

\* ------------------------------------------------------------- specification
Init ==
  /\ sessions = <<>>
  /\ sessionCallerOrigins = <<>>
  /\ usedNonces = <<>>
  /\ csNonces = <<>>
  /\ sessionTokens = <<>>
  /\ pendingRequests = <<>>
  /\ pendingPermissions = <<>>
  /\ policies = {}
  /\ tabs = [t \in {UserTab} |-> BankUrl]
  /\ activeTab = UserTab
  /\ now = 0
  /\ ticks = 0
  /\ nextSession = 1
  /\ nextToken = 1
  /\ nextPermission = 1
  /\ step = NoStep
  /\ addCalls = {}
  /\ acceptedAgo = [n \in 1..(NonceCacheLimit + 1) |-> Never]
  /\ attested = <<>>
  /\ tokenSession = <<>>
  /\ approved = {}

\* What an honest page sends, with the tab staying on its page.
Honest == [urls |-> Urls, tabIds |-> {NoTab}, tools |-> {"navigate", "click", "snapshot"},
           races |-> {}, results |-> {"ToolOk", "ToolError"}]
\* A nonce neither cache holds: what crypto.randomUUID() gives an honest page.
FreshNonces == LET unused == {n \in 1..(NonceCacheLimit + 1) : CsPass(n) /\ SwPass(n)}
               IN {n \in unused : \A m \in unused : n <= m}

\* A browser-automator-command that fails a nonce check or has no command.
NonceRejections(nonces, rids) ==
  \E o \in CallerOrigins, n \in nonces, rid \in rids :
    \/ ContentScriptRejects(o, n, rid)
    \/ ContentScriptInvalid(o, n, rid)
    \/ ServiceWorkerRejectsNonce(o, n, rid)

\* A connect command, or a command whose token fails.
Gate(nonces, rids) ==
  \E o \in CallerOrigins, n \in nonces, rid \in rids :
    /\ CsPass(n) /\ SwPass(n)
    /\ \/ \E tok \in TokenInputs : Connect(o, n, rid, tok)
       \/ \E tok \in TokenInputs :
            TokenCheck(tok, o) # "ok" /\ TokenRejected(o, n, rid, tok)

\* A command that passed the nonce checks and the token validation. `u` gives
\* the values the page and the environment choose from.
Commands(nonces, rids, u) ==
  \E o \in CallerOrigins, n \in nonces, rid \in rids :
    /\ Idle /\ CsPass(n) /\ SwPass(n)
    /\ \E tok \in TokenInputs :
         /\ TokenCheck(tok, o) = "ok"
         /\ \/ UnknownCommand(o, n, rid, tok)
            \/ CreateTab(o, n, rid, tok, NoSession, BadUrl)
            \/ ListTabs(o, n, rid, tok, NoSession)
            \/ \E sid \in SessionInputs \ {NoSession} :
                 \/ \E url \in u.urls : CreateTab(o, n, rid, tok, sid, url)
                 \/ ListTabs(o, n, rid, tok, sid)
                 \/ ~HasSession(sid) /\ Execute(o, n, rid, tok, sid, NoTab, "none", BadUrl, BankUrl, "ToolOk")
            \/ \E sid \in {NoSession} \cup DOMAIN sessions, tabId \in (u.tabIds \cup DOMAIN tabs) :
                 \/ /\ tabId \in {NoTab, PlaceholderTabId}
                    /\ \E url \in u.urls : Execute(o, n, rid, tok, sid, tabId, "navigate", url, BankUrl, "ToolOk")
                 \/ /\ TabDenied(sid, ResolvedTab(tabId)) \/ ResolvedTab(tabId) = NoTab
                    /\ \E tool \in u.tools :
                         /\ ~(tool = "navigate" /\ tabId \in {NoTab, PlaceholderTabId})
                         /\ Execute(o, n, rid, tok, sid, tabId, tool, BadUrl, BankUrl, "ToolOk")
                 \/ /\ ~TabDenied(sid, ResolvedTab(tabId)) /\ ResolvedTab(tabId) # NoTab
                    /\ \/ /\ tabId \notin {NoTab, PlaceholderTabId}
                          /\ \E url \in u.urls : Execute(o, n, rid, tok, sid, tabId, "navigate", url, BankUrl, "ToolOk")
                       \/ \E tool \in u.tools \ {"navigate"} :
                            \E page \in {tabs[ResolvedTab(tabId)]} \cup u.races, res \in u.results :
                              Execute(o, n, rid, tok, sid, tabId, tool, BadUrl, page, res)

\* The popup's decision on a pending approval.
Decisions(u) ==
  \E d \in PopupDecisions, allow \in BOOLEAN, remember \in BOOLEAN :
    LET p == PendingOf(d.permissionId) IN
    \E page \in Pages(p.cmd, p.tab, u.races), res \in Results(p.cmd, u.results) :
      PermissionDecision(d.permissionId, allow, remember, d.sessionId, page, res)

\* The step leaves at most k pending approvals ever created.
AskedAtMost(k) == nextPermission' <= k + 1

\* The protocol with an honest page: every command carries a fresh nonce and
\* no requestId, and the clock stands still.
Next ==
  \/ Gate(FreshNonces, {NoRequestId})
  \/ Commands(FreshNonces, {NoRequestId}, Honest) /\ AskedAtMost(MaxWideApprovals)
  \/ Decisions(Honest)
  \/ \E id \in 1..MaxApprovals : PopupFailed(id)
  \/ TaskDone

Spec == Init /\ [][Next]_vars

\* The nonce checks with a page that reuses nonces and omits them.
NonceNext ==
  \/ NonceRejections(NonceInputs, {NoRequestId})
  \/ Gate(NonceInputs, {NoRequestId})
  \/ TaskDone

NonceSpec == Init /\ [][NonceNext]_vars

\* A page that only clicks in the tab it is given.
Clicking == [urls |-> {ShopUrl}, tabIds |-> {NoTab}, tools |-> {"click"},
             races |-> {}, results |-> {"ToolOk"}]

\* The protocol with the clock running: tokens expire and approvals time out.
ClockNext ==
  \/ \E d \in TickSteps : Tick(d)
  \/ Gate(FreshNonces, {NoRequestId})
  \/ Commands(FreshNonces, {NoRequestId}, Clicking) /\ AskedAtMost(MaxWideApprovals)
  \/ \E id \in 1..MaxApprovals : PermissionTimeout(id)
  \/ TaskDone

ClockSpec == Init /\ [][ClockNext]_vars

\* The clock around the expiry of a token: 23 h 59 min, one minute, two minutes.
BoundarySteps == {TokenLifetimeMs - 60 * 1000, 60 * 1000, 2 * 60 * 1000}
ExpiryNext ==
  \/ \E d \in BoundarySteps : Tick(d)
  \/ Gate(FreshNonces, {NoRequestId})
  \/ \E o \in CallerOrigins, n \in FreshNonces, tok \in TokenInputs, sid \in {NoSession} \cup DOMAIN sessions :
       ListTabs(o, n, NoRequestId, tok, sid)
  \/ TaskDone

ExpirySpec == Init /\ [][ExpiryNext]_vars

\* Sessions created by the createSession message as well as by connect.
SessionNext ==
  \/ \E sender \in CallerOrigins, callerOrigin \in CallerOrigins \cup {NoOrigin} :
       CreateSession(sender, callerOrigin)
  \/ Gate(FreshNonces, {NoRequestId})
  \/ TaskDone

SessionSpec == Init /\ [][SessionNext]_vars

\* A page that works within its own session: it connects, opens tabs,
\* navigates and clicks in the tabs of its session with the token and the
\* sessionId its connect returned, or navigates with no sessionId.
OwnCommands(n) ==
  \E tok \in DOMAIN sessionTokens :
    LET o == sessionTokens[tok].origin
        sid == tokenSession[tok]
    IN \/ \E url \in Urls : CreateTab(o, n, NoRequestId, tok, sid, url)
       \/ \E url \in Urls : Execute(o, n, NoRequestId, tok, NoSession, NoTab, "navigate", url, BankUrl, "ToolOk")
       \/ \E t \in sessions[sid].tabIds :
            \/ \E url \in Urls : Execute(o, n, NoRequestId, tok, sid, t, "navigate", url, BankUrl, "ToolOk")
            \/ Execute(o, n, NoRequestId, tok, sid, t, "click", BadUrl, tabs[t], "ToolOk")

OwnNext ==
  \/ \E o \in {AppOrigin, LocalOrigin}, n \in FreshNonces : Connect(o, n, NoRequestId, NoToken)
  \/ \E n \in FreshNonces : OwnCommands(n)
  \/ Decisions(Clicking)
  \/ TaskDone

OwnSpec == Init /\ [][OwnNext]_vars

\* A timer that is due fires before the clock moves on.
NoTimerDue ==
  \A i \in 1..Len(pendingPermissions) : now < pendingPermissions[i].createdAt + ApprovalTimeoutMs
\* Clicks that DomCore or the message channel may fail.
Failing == [Clicking EXCEPT !.results = {"ToolOk", "ToolError", "ExecFailed"}]

\* The page of OwnNext with the approval timer running: an approval is
\* decided by the popup, or rejected because the popup did not open or
\* because 30 s passed; a click may fail. Commands come while the clock can
\* still reach the timers they start.
TimedNext ==
  \/ Tick(ApprovalTimeoutMs) /\ NoTimerDue
  \/ \E o \in {AppOrigin, LocalOrigin}, n \in FreshNonces : Connect(o, n, NoRequestId, NoToken)
  \/ \E n \in FreshNonces : OwnCommands(n) /\ ticks < MaxTicks
  \/ Decisions(Failing)
  \/ \E id \in 1..MaxApprovals : PopupFailed(id)
  \/ \E id \in 1..MaxApprovals : PermissionTimeout(id)
  \/ TaskDone

TimedSpec == Init /\ [][TimedNext]_vars

\* The same, with a popup that may also decide on an approval that is no
\* longer pending.
ResolveNext ==
  \/ TimedNext
  \/ \E id \in 1..MaxApprovals : PermissionNotFound(id)

ResolveSpec == Init /\ [][ResolveNext]_vars

\* Every started task completes; the clock moves and a due setTimeout fires
\* however many messages keep arriving (the event loop serves its timers).
TimedFairSpec ==
  /\ TimedSpec
  /\ WF_vars(TaskDone)
  /\ SF_vars(Tick(ApprovalTimeoutMs) /\ NoTimerDue)
  /\ \A id \in 1..MaxApprovals : SF_vars(PermissionTimeout(id))

\* Sessions that work on their own tabs, and commands that carry any tab id
\* with any session id and any token.
AnyTabCommands(n) ==
  \E o \in {AppOrigin, LocalOrigin}, tok \in TokenInputs, sid \in {NoSession} \cup DOMAIN sessions,
     tabId \in DOMAIN tabs \cup {PlaceholderTabId}, tool \in {"snapshot", "click"} :
    \/ TokenRejectedExecute(o, n, NoRequestId, tok, sid, tabId)
    \/ Execute(o, n, NoRequestId, tok, sid, tabId, tool, BadUrl, tabs[ResolvedTab(tabId)], "ToolOk")
TabNext ==
  \/ \E o \in {AppOrigin, LocalOrigin}, n \in FreshNonces : Connect(o, n, NoRequestId, NoToken)
  \/ \E n \in FreshNonces : OwnCommands(n) /\ AskedAtMost(MaxWideApprovals)
  \/ \E n \in FreshNonces : AnyTabCommands(n) /\ AskedAtMost(MaxWideApprovals)
  \/ Decisions(Clicking)
  \/ TaskDone

TabSpec == Init /\ [][TabNext]_vars

\* Commands that carry any nonce, any token, any session id and any tab id:
\* every check of the pipeline has commands that fail it.
PipeNext ==
  \/ \E o \in {AppOrigin, LocalOrigin}, n \in FreshNonces : Connect(o, n, NoRequestId, NoToken)
  \/ \E n \in FreshNonces : OwnCommands(n) /\ AskedAtMost(MaxWideApprovals)
  \/ \E n \in NonceInputs : AnyTabCommands(n) /\ AskedAtMost(MaxWideApprovals)
  \/ \E n \in NonceInputs : ContentScriptRejects(AppOrigin, n, NoRequestId)
  \/ \E n \in NonceInputs : ContentScriptInvalid(AppOrigin, n, NoRequestId)
  \/ \E n \in NonceInputs : ServiceWorkerRejectsNonce(AppOrigin, n, NoRequestId)
  \/ Decisions(Clicking)
  \/ TaskDone

PipeSpec == Init /\ [][PipeNext]_vars

\* A page that numbers its requests and keeps at most MaxApprovals of them
\* waiting: a new command carries the lowest requestId that no waiting
\* command carries.
RequestIdsInFlight == {pendingPermissions[i].cmd.requestId : i \in 1..Len(pendingPermissions)}
NextRequestIds == LET free == (1..MaxApprovals) \ RequestIdsInFlight
                  IN {r \in free : \A q \in free : r <= q}

\* Commands of a connected page on every path of the handler: a tab creation
\* that asks, a listTabs for a session that does not exist, a click in a tab
\* of nobody, a click in an own tab that DomCore may fail.
ReplyCommands(n, rid) ==
  \E tok \in DOMAIN sessionTokens :
    LET o == sessionTokens[tok].origin
        sid == tokenSession[tok]
    IN \/ CreateTab(o, n, rid, tok, sid, ShopUrl)
       \/ ListTabs(o, n, rid, tok, DefaultSession)
       \/ Execute(o, n, rid, tok, sid, UserTab, "click", BadUrl, tabs[UserTab], "ToolOk")
       \/ \E t \in sessions[sid].tabIds, res \in Failing.results :
            Execute(o, n, rid, tok, sid, t, "click", BadUrl, tabs[t], res)

\* Every path from the page's command to its response, with the approval
\* timer running.
ReplyNext ==
  \/ Tick(ApprovalTimeoutMs) /\ NoTimerDue
  \/ \E n \in NonceInputs, rid \in NextRequestIds :
       \/ ContentScriptRejects(AppOrigin, n, rid)
       \/ ContentScriptInvalid(AppOrigin, n, rid)
       \/ ServiceWorkerRejectsNonce(AppOrigin, n, rid)
  \/ \E n \in FreshNonces, rid \in NextRequestIds :
       \/ Connect(AppOrigin, n, rid, NoToken)
       \/ TokenRejected(AppOrigin, n, rid, NoToken)
  \/ \E n \in FreshNonces, rid \in NextRequestIds : ReplyCommands(n, rid) /\ ticks < MaxTicks
  \/ Decisions(Failing)
  \/ \E id \in 1..MaxApprovals : PopupFailed(id)
  \/ \E id \in 1..MaxApprovals : PermissionTimeout(id)
  \/ TaskDone

ReplySpec == Init /\ [][ReplyNext]_vars

ReplyFairSpec ==
  /\ ReplySpec
  /\ WF_vars(TaskDone)
  /\ SF_vars(Tick(ApprovalTimeoutMs) /\ NoTimerDue)
  /\ \A id \in 1..MaxApprovals : SF_vars(PermissionTimeout(id))

\* The same page also clicks in the user's tab without naming a session, so
\* that a click waits for its approval and may fail once it is released.
FailNext ==
  \/ ReplyNext
  \/ \E n \in FreshNonces, rid \in NextRequestIds, tok \in DOMAIN sessionTokens :
       /\ Execute(sessionTokens[tok].origin, n, rid, tok, NoSession, UserTab, "click", BadUrl, tabs[UserTab], "ToolOk")
       /\ ticks < MaxTicks

FailSpec == Init /\ [][FailNext]_vars

\* Pages that change under the commands of OwnNext: a tab navigates by itself
\* while a click waits for its approval, and between chrome.tabs.get and the
\* content script's handler.
Racing == [Clicking EXCEPT !.races = Urls]
RaceNext ==
  \/ \E o \in {AppOrigin, LocalOrigin}, n \in FreshNonces : Connect(o, n, NoRequestId, NoToken)
  \/ \E n \in FreshNonces : OwnCommands(n)
  \/ \E t \in DOMAIN tabs, u \in Urls : TabNavigates(t, u)
  \/ Decisions(Racing)
  \/ TaskDone

RaceSpec == Init /\ [][RaceNext]_vars

\* A custom client that also names the evaluate tool in its own tabs.
EvalNext ==
  \/ OwnNext
  \/ \E n \in FreshNonces, tok \in DOMAIN sessionTokens :
       \E t \in sessions[tokenSession[tok]].tabIds :
         Execute(sessionTokens[tok].origin, n, NoRequestId, tok, tokenSession[tok], t,
                 "evaluate", BadUrl, tabs[t], "ToolOk")

EvalSpec == Init /\ [][EvalNext]_vars

\* Every message the content script takes from a page, from pages of every
\* origin: init, wake-up, and commands that connect or fail a check.
PostNext ==
  \/ NonceNext
  \/ BrowserAutomatorInit
  \/ WakeUp

PostSpec == Init /\ [][PostNext]_vars

\* The example bridge page of an origin. Every command it forwards carries a
\* requestId, so it sees the sessionToken of every connect response posted
\* to its origin; it keeps one only while it holds none.
TokensPostedTo(o) == {t \in DOMAIN tokenSession : attested[tokenSession[t]] = o}
\* Variant in which a later token replaces the stored one; C37 tells it apart.
SessionTokenRefLatest(o) ==
  IF TokensPostedTo(o) = {} THEN NoToken
  ELSE CHOOSE t \in TokensPostedTo(o) : \A u \in TokensPostedTo(o) : u <= t
\* sessionTokenRef.current: the first token the page received, if any.
SessionTokenRef(o) ==
  IF TokensPostedTo(o) = {} THEN NoToken
  ELSE CHOOSE t \in TokensPostedTo(o) : \A u \in TokensPostedTo(o) : t <= u
\* ws.onmessage: the page forwards the server's command with a new nonce and
\* the token it holds, a connect as well as any other command.
BridgeForwards(o, n, rid) ==
  LET tok == SessionTokenRef(o) IN
  \/ Connect(o, n, rid, tok)
  \/ TokenCheck(tok, o) # "ok" /\ TokenRejected(o, n, rid, tok)
  \/ TokenCheck(tok, o) = "ok" /\ ListTabs(o, n, rid, tok, tokenSession[tok])

\* Bridge pages that are never reloaded, with the clock running and a service
\* worker that restarts.
BridgeNext ==
  \/ \E o \in {AppOrigin, LocalOrigin}, n \in FreshNonces : BridgeForwards(o, n, 1)
  \/ \E d \in TickSteps : Tick(d)
  \/ Restart
  \/ TaskDone

BridgeSpec == Init /\ [][BridgeNext]_vars

\* A page that numbers its requests with the lowest number the service
\* worker holds no record of, and sends snapshot commands with and without
\* tabId, with good and bad tokens and nonces, while up to an hour and more
\* passes between them.
TrackSteps == {OneHourMs, 1}
TrackRequestIds ==
  LET free == (1..MaxApprovals) \ DOMAIN pendingRequests
  IN IF free = {} THEN {1} ELSE {r \in free : \A q \in free : r <= q}
TrackNext ==
  \/ \E n \in FreshNonces : Connect(AppOrigin, n, NoRequestId, NoToken)
  \/ \E n \in FreshNonces, rid \in TrackRequestIds \cup {NoRequestId}, tok \in DOMAIN sessionTokens,
        tabId \in {NoTab, PlaceholderTabId, UserTab} :
       Execute(AppOrigin, n, rid, tok, NoSession, tabId, "snapshot", BadUrl, tabs[UserTab], "ToolOk")
  \/ \E n \in FreshNonces, rid \in TrackRequestIds :
       TokenRejectedExecute(AppOrigin, n, rid, BogusToken, NoSession, UserTab)
  \/ \E n \in NonceInputs, rid \in TrackRequestIds : ContentScriptRejects(AppOrigin, n, rid)
  \/ \E d \in TrackSteps : Tick(d)
  \/ TaskDone

TrackSpec == Init /\ [][TrackNext]_vars

\* The page of OwnNext, and content scripts that are sent any execute-tool
\* message the dispatch of lines 694-702 can build.
ToolNext ==
  \/ OwnNext
  \/ \E t \in DOMAIN tabs, expected \in {NoOrigin} \cup {UrlOrigin(u) : u \in Urls},
        tool \in {"snapshot", "click"}, res \in {"ToolOk", "ToolError"} :
       ExecuteTool(t, expected, tool, res)

ToolSpec == Init /\ [][ToolNext]_vars

\* The page of OwnNext with a service worker that restarts: afterwards the
\* page still sends the tokens it was given and the popup may still send the
\* decision for an approval it showed.
RestartNext ==
  \/ OwnNext
  \/ Restart
  \/ \E id \in 1..MaxApprovals : PermissionNotFound(id)
  \/ \E n \in FreshNonces, tok \in DOMAIN tokenSession :
       /\ TokenCheck(tok, attested[tokenSession[tok]]) # "ok"
       /\ TokenRejected(attested[tokenSession[tok]], n, NoRequestId, tok)

RestartSpec == Init /\ [][RestartNext]_vars

\* The page of TimedNext with a popup that asks for the pending approval.
QueryNext ==
  \/ TimedNext
  \/ GetPendingPermission

QuerySpec == Init /\ [][QueryNext]_vars

\* ------------------------------------------------------------- claims
\* C1 (as claimed): a tool or an existing-tab navigate reaches tab t only if
\* t is in the tab set of the session the command names; a command naming no
\* session, or a tab of no session, is denied.
C1_DispatchOnlyToOwnedTab ==
  step.effect \in {"toolDispatched", "tabUpdated"} => IsTabInSession(step.cmd.sessionId, step.tab)

\* C2: a tab is in the tab set of session s iff a permitted tab creation
\* carrying sessionId s added it; it is a tab that a command created; and no
\* tab is in the tab sets of two sessions.
C2_TabSetsExactAndDisjoint ==
  /\ \A s \in DOMAIN sessions :
       /\ sessions[s].tabIds \subseteq DOMAIN tabs \ {UserTab}
       /\ \A t \in DOMAIN tabs \cup {NoTab, PlaceholderTabId} :
            IsTabInSession(s, t) <=> <<s, t>> \in addCalls
  /\ \A s1 \in DOMAIN sessions, s2 \in DOMAIN sessions :
       s1 # s2 => sessions[s1].tabIds \cap sessions[s2].tabIds = {}

\* Two sessions own one created tab each.
C2_TwoSessionsOwnTabs ==
  \E s1 \in DOMAIN sessions, s2 \in DOMAIN sessions :
    s1 # s2 /\ sessions[s1].tabIds # {} /\ sessions[s2].tabIds # {}

C4_TokenGate ==
  [][(/\ Idle
      /\ step'.kind = "command"
      /\ step'.swAccepted
      /\ step'.cmd.type # "connect"
      /\ LET c == step'.cmd IN
         \/ c.token = NoToken
         \/ c.token \notin DOMAIN sessionTokens
         \/ now > sessionTokens[c.token].expiresAt
         \/ sessionTokens[c.token].origin # c.origin)
     => (/\ step'.resp \in TokenErrors
         /\ step'.effect = "none"
         /\ UNCHANGED <<sessions, sessionCallerOrigins, sessionTokens, policies,
                        pendingPermissions, pendingRequests, tabs, activeTab>>)]_vars

\* An issued token of the right origin was refused because it expired.
C4_ExpiredTokenRefused ==
  /\ step.kind = "command"
  /\ step.resp = "TokenInvalid"
  /\ step.cmd.token \in DOMAIN sessionTokens
  /\ sessionTokens[step.cmd.token].origin = step.cmd.origin
  /\ now > sessionTokens[step.cmd.token].expiresAt

\* C5 (as claimed): the origin a session is created for, and the origin bound
\* into its token, is the sender origin the transport attested.
C5_SessionOriginIsAttested ==
  /\ \A s \in DOMAIN sessions :
       sessions[s].callerOrigin = attested[s] /\ sessionCallerOrigins[s] = attested[s]
  /\ \A t \in DOMAIN sessionTokens :
       sessionTokens[t].origin = attested[tokenSession[t]]

\* C6 (as claimed): a command is processed under session s only if its
\* authenticated origin is the callerOrigin that created s.
C6_SessionOriginBinding ==
  (/\ step.kind = "command"
   /\ HasSession(step.cmd.sessionId)
   /\ step.resp \notin ErrorResponses)
  => step.cmd.origin = sessionCallerOrigins[step.cmd.sessionId]

\* C7 (as claimed): a command is processed under session s only if its token
\* was issued by the connect that created s.
C7_TokenSessionBinding ==
  (/\ step.kind = "command"
   /\ HasSession(step.cmd.sessionId)
   /\ step.resp \notin ErrorResponses
   /\ step.cmd.token \in DOMAIN tokenSession)
  => tokenSession[step.cmd.token] = step.cmd.sessionId

\* C8: a tab is created, a tab's URL is updated, or click/type is dispatched
\* only for a command whose PermissionRequest (its action, its caller and the
\* target origin the handler read when it built the request) was allowed by
\* the session's grants, by a policy, or by the user's approval.
C8_PermissionBeforeEffect ==
  (\/ step.effect \in {"tabCreated", "tabUpdated"}
   \/ step.effect = "toolDispatched" /\ step.cmd.tool \in {"click", "type"})
  => /\ step.request.action = (IF step.cmd.type = "createTab" THEN "createTab" ELSE step.cmd.tool)
     /\ step.request.action \in {"navigate", "createTab", "click", "type"}
     /\ step.request.callerOrigin = step.cmd.origin
     /\ step.effect \in {"tabCreated", "tabUpdated"} => step.request.targetOrigin = UrlOrigin(step.cmd.url)
     /\ step.effect = "toolDispatched" /\ step.kind = "command" =>
          step.request.targetOrigin = UrlOrigin(tabs[step.tab])
     /\ \/ IsOriginGrantedForSession(step.sessionId, step.request.targetOrigin)
        \/ IsAllowed(step.request)
        \/ [request |-> step.request, sessionId |-> step.sessionId] \in approved

\* A click went through on the session's grant, with no approval asked.
C8_ClickOnSessionGrant ==
  /\ step.kind = "command"
  /\ step.effect = "toolDispatched"
  /\ step.cmd.tool = "click"
  /\ ~IsAllowed(step.request)

\* C9: when the approval UI denies a pending request, the waiting command
\* answers with an error, no tab is created or navigated, no tool is
\* dispatched, and the sessions' grants and the policies stay as they were.
C9_DenialHasNoEffect ==
  [][(Idle /\ step'.kind = "decision" /\ ~step'.allow /\ step'.resp # "PermissionNotFound")
     => (/\ step'.resp = "PermissionDenied"
         /\ step'.resp \in ErrorResponses
         /\ step'.effect = "none"
         /\ UNCHANGED <<tabs, activeTab, sessions, policies, addCalls>>)]_vars

\* A request the user denied, with remember selected.
C9_DeniedWithRemember ==
  /\ step.kind = "decision"
  /\ ~step.allow /\ step.remember
  /\ step.resp = "PermissionDenied"
  /\ step.request.action \in {"navigate", "createTab", "click", "type"}

\* C10: on the approval of a pending approval the request's target origin is
\* in the grantedOrigins of the session that owns the approval, whatever
\* remember is; the policy store gains the request if remember is selected
\* and is unchanged otherwise.
C10_ApprovalGrants ==
  [][(Idle /\ step'.kind = "decision" /\ step'.allow)
     => (/\ step'.sessionId \in DOMAIN sessions =>
              /\ step'.sessionId \in DOMAIN sessions'
              /\ step'.request.targetOrigin \in sessions'[step'.sessionId].grantedOrigins
         /\ \A s \in DOMAIN sessions \ {step'.sessionId} :
              sessions'[s].grantedOrigins = sessions[s].grantedOrigins
         /\ policies' = IF step'.remember THEN policies \cup {step'.request} ELSE policies)]_vars

\* An approval without remember: the second session got the grant, no policy.
C10_ApprovedWithoutRemember ==
  /\ step.kind = "decision"
  /\ step.allow /\ ~step.remember
  /\ step.sessionId = MaxSessions
  /\ IsOriginGrantedForSession(step.sessionId, step.request.targetOrigin)
  /\ step.request \notin policies

\* C11: the grants of a session come from approvals in that session only; a
\* sensitive request of a session that holds a grant for the target origin is
\* allowed at once and creates no pending approval; a request of a session
\* without that grant (and with no matching policy) is escalated, whatever
\* other sessions were granted.
C11_SessionScopedGrant ==
  /\ [](\A s \in DOMAIN sessions : \A o \in sessions[s].grantedOrigins :
          \E a \in approved : a.sessionId = s /\ a.request.targetOrigin = o)
  /\ [][(Idle /\ step'.kind = "command" /\ step'.request # NoRequest)
        => LET sid == step'.cmd.sessionId
               o == step'.request.targetOrigin
               granted == sid \in DOMAIN sessions /\ o \in sessions[sid].grantedOrigins
           IN /\ granted =>
                   /\ step'.resp \notin ErrorResponses \cup {"Pending"}
                   /\ step'.effect # "none"
                   /\ pendingPermissions' = pendingPermissions
              /\ ~granted /\ step'.request \notin policies =>
                   /\ step'.resp = "Pending"
                   /\ step'.effect = "none"
                   /\ Len(pendingPermissions') = Len(pendingPermissions) + 1]_vars

\* With no policy stored, a session is asked again for an origin that another
\* session of the same caller origin was granted.
C11_OtherSessionAskedAgain ==
  /\ step.kind = "command"
  /\ step.resp = "Pending"
  /\ policies = {}
  /\ step.cmd.sessionId \in DOMAIN sessions
  /\ \E s \in DOMAIN sessions \ {step.cmd.sessionId} :
       /\ sessions[s].callerOrigin = step.cmd.origin
       /\ step.request.targetOrigin \in sessions[s].grantedOrigins

\* C12: an approval with remember stores its request as a policy, policies
\* are never removed, and every request that equals a stored policy (same
\* action, caller origin and target origin), from any session, is allowed at
\* once and creates no pending approval.
C12_PersistentPolicy ==
  [][/\ policies \subseteq policies'
     /\ (Idle /\ step'.kind = "decision" /\ step'.allow /\ step'.remember)
          => step'.request \in policies'
     /\ (Idle /\ step'.kind = "command" /\ step'.request \in policies)
          => /\ step'.resp \notin ErrorResponses \cup {"Pending"}
             /\ step'.effect # "none"
             /\ pendingPermissions' = pendingPermissions]_vars

\* A session that was never granted anything opens a tab on a remembered policy.
C12_NewSessionAllowedByPolicy ==
  /\ step.kind = "command"
  /\ step.effect = "tabCreated"
  /\ step.request \in policies
  /\ step.cmd.sessionId \in DOMAIN sessions
  /\ \A a \in approved : a.sessionId # step.cmd.sessionId

\* C13: a request of a session without a grant for its target is allowed at
\* once iff the policy store holds a policy of exactly its caller origin, its
\* target origin and its action; with another caller, another target or
\* another action it is escalated.
C13_ExactPolicyMatch ==
  [][LET c == step'.cmd
         a == IF c.type = "createTab" THEN "createTab" ELSE c.tool
         o == IF c.tool = "click" THEN UrlOrigin(tabs[c.tabId]) ELSE UrlOrigin(c.url)
         granted == c.sessionId \in DOMAIN sessions /\ o \in sessions[c.sessionId].grantedOrigins
         matched == \E q \in policies : q.action = a /\ q.callerOrigin = c.origin /\ q.targetOrigin = o
     IN (Idle /\ step'.kind = "command" /\ step'.request # NoRequest /\ ~granted)
        => /\ step'.request = [action |-> a, callerOrigin |-> c.origin, targetOrigin |-> o]
           /\ matched <=> (step'.effect # "none" /\ step'.resp \notin ErrorResponses \cup {"Pending"})
           /\ ~matched <=> (step'.resp = "Pending" /\ step'.effect = "none")]_vars

\* A request is escalated although a policy of its caller and target exists
\* for another action.
C13_OtherActionAsked ==
  /\ step.kind = "command"
  /\ step.resp = "Pending"
  /\ \E q \in policies :
       /\ q.callerOrigin = step.request.callerOrigin
       /\ q.targetOrigin = step.request.targetOrigin
       /\ q.action # step.request.action

\* C14: the policy store changes only by a decision with allow and remember
\* on a pending approval, which adds exactly that approval's request;
\* denials, timeouts, popup failures, requests allowed at once and approvals
\* without remember leave it as it is.
C14_PolicyOnlyByRemember ==
  [][policies' # policies
     => /\ Idle /\ step'.kind = "decision" /\ step'.allow /\ step'.remember
        /\ \E i \in 1..Len(pendingPermissions) : pendingPermissions[i].request = step'.request
        /\ policies' = policies \cup {step'.request}]_vars

\* A remembered approval has put the only policy into the store.
C14_PolicyFromRememberedApproval ==
  /\ step.kind = "decision"
  /\ step.allow /\ step.remember
  /\ policies = {step.request}

\* C15: no step removes a session or an origin from a session's
\* grantedOrigins.
C15_GrantsOnlyGrow ==
  [][\A s \in DOMAIN sessions :
       s \in DOMAIN sessions' /\ sessions[s].grantedOrigins \subseteq sessions'[s].grantedOrigins]_vars

\* A request of a session that holds the grant for its target was denied.
C15_DeniedAfterGrant ==
  /\ step.kind = "decision"
  /\ ~step.allow
  /\ step.sessionId \in DOMAIN sessions
  /\ step.request.targetOrigin \in sessions[step.sessionId].grantedOrigins

\* C16: a pending approval is never older than 30 s; the timer that finds it
\* pending discards it and the waiting command answers with an error and has
\* no effect; and every pending approval is eventually resolved.
C16_ApprovalTimeout ==
  /\ [](\A i \in 1..Len(pendingPermissions) :
          now <= pendingPermissions[i].createdAt + ApprovalTimeoutMs)
  /\ [][(Idle /\ step'.kind = "timeout")
        => /\ step'.resp = "PermissionError"
           /\ step'.resp \in ErrorResponses
           /\ step'.effect = "none"
           /\ Len(pendingPermissions') = Len(pendingPermissions) - 1
           /\ UNCHANGED <<sessions, policies, tabs, activeTab>>]_vars
  /\ \A id \in 1..MaxApprovals : (id \in PendingIds) ~> (id \notin PendingIds)

\* An approval timed out after 30 s.
C16_TimedOut ==
  /\ step.kind = "timeout"
  /\ step.resp = "PermissionError"
  /\ now >= ApprovalTimeoutMs
  /\ pendingPermissions = <<>>

\* C17: a connect command from an origin that is not secure answers with an
\* error and creates no session and no token, whatever token it carries and
\* whatever sessions, grants and policies exist; a connect from a secure
\* origin is served without a valid token, and every other command that is
\* served past the token validation carried a valid token of its origin.
C17_InsecureConnectRefused ==
  [][(Idle /\ step'.kind = "command" /\ step'.swAccepted)
     => LET c == step'.cmd
            valid == /\ c.token \in DOMAIN sessionTokens
                     /\ now <= sessionTokens[c.token].expiresAt
                     /\ sessionTokens[c.token].origin = c.origin
        IN /\ (c.type = "connect" /\ ~IsSecureOrigin(c.origin))
              => /\ step'.resp = "InsecureOrigin"
                 /\ step'.resp \in ErrorResponses
                 /\ step'.effect = "none"
                 /\ UNCHANGED <<sessions, sessionCallerOrigins, sessionTokens, policies,
                                pendingPermissions, tabs>>
           /\ (c.type = "connect" /\ IsSecureOrigin(c.origin)) => step'.resp = "Connected"
           /\ (c.type # "connect" /\ step'.resp \notin TokenErrors) => valid]_vars

\* A connect from a plain-http origin was refused although it carried an
\* issued, unexpired token and a policy is stored.
C17_RefusedDespiteToken ==
  /\ step.kind = "command"
  /\ step.cmd.type = "connect"
  /\ step.cmd.origin = PlainOrigin
  /\ step.resp = "InsecureOrigin"
  /\ step.cmd.token \in DOMAIN sessionTokens
  /\ now <= sessionTokens[step.cmd.token].expiresAt
  /\ policies # {}

\* C18: a successful connect adds exactly one session, whose callerOrigin is
\* the command's origin, and exactly one token, bound to that origin with
\* expiresAt = createdAt + 24 h; it answers with the new session, leaves every
\* earlier session and token as it was, and runs no later step: no tab, no
\* approval, no policy, no dispatch.
C18_ConnectCreatesOneSessionOneToken ==
  [][(Idle /\ step'.kind = "command" /\ step'.cmd.type = "connect" /\ step'.resp = "Connected")
     => LET o == step'.cmd.origin IN
        /\ \E sid \in DOMAIN sessions' \ DOMAIN sessions :
             /\ DOMAIN sessions' = DOMAIN sessions \cup {sid}
             /\ sessions'[sid].callerOrigin = o
             /\ sessionCallerOrigins'[sid] = o
             /\ step'.sessionId = sid
        /\ \A sid \in DOMAIN sessions : sessions'[sid] = sessions[sid]
        /\ \E t \in DOMAIN sessionTokens' \ DOMAIN sessionTokens :
             /\ DOMAIN sessionTokens' = DOMAIN sessionTokens \cup {t}
             /\ sessionTokens'[t].origin = o
             /\ sessionTokens'[t].createdAt = now
             /\ sessionTokens'[t].expiresAt = sessionTokens'[t].createdAt + 24 * 60 * 60 * 1000
        /\ \A t \in DOMAIN sessionTokens : sessionTokens'[t] = sessionTokens[t]
        /\ step'.effect = "none"
        /\ UNCHANGED <<policies, pendingPermissions, pendingRequests, tabs, activeTab>>]_vars

\* A second connect succeeded at a later time and the first token is still
\* stored beside the new one.
C18_SecondTokenCoexists ==
  /\ step.kind = "command"
  /\ step.cmd.type = "connect"
  /\ step.resp = "Connected"
  /\ Cardinality(DOMAIN sessionTokens) = 2
  /\ \E t, u \in DOMAIN sessionTokens : sessionTokens[t].createdAt < sessionTokens[u].createdAt

\* C19: every stored token has expiresAt = createdAt + 24 h; a command other
\* than connect that carries a stored token of its own origin passes the token
\* validation at every time now <= expiresAt, 23 h 59 min after the issue and
\* at expiresAt itself, and is refused as expired at every time
\* now > expiresAt, 24 h 1 min after the issue.
C19_ExpiryBoundary ==
  /\ [](\A t \in DOMAIN sessionTokens :
          sessionTokens[t].expiresAt = sessionTokens[t].createdAt + 24 * 60 * 60 * 1000)
  /\ [][(/\ Idle /\ step'.kind = "command" /\ step'.swAccepted
         /\ step'.cmd.type # "connect"
         /\ step'.cmd.token \in DOMAIN sessionTokens
         /\ sessionTokens[step'.cmd.token].origin = step'.cmd.origin)
        => LET k == sessionTokens[step'.cmd.token] IN
           /\ now <= k.expiresAt => step'.resp \notin TokenErrors
           /\ now > k.expiresAt => step'.resp = "TokenInvalid"
           /\ now = k.createdAt + 24 * 60 * 60 * 1000 - 60 * 1000 => step'.resp \notin TokenErrors
           /\ now = k.createdAt + 24 * 60 * 60 * 1000 + 60 * 1000 => step'.resp = "TokenInvalid"]_vars

\* A command passed the token validation at the very instant its token expires.
C19_ValidAtExpiresAt ==
  /\ step.kind = "command"
  /\ step.swAccepted
  /\ step.cmd.type = "listTabs"
  /\ step.cmd.token \in DOMAIN sessionTokens
  /\ now = sessionTokens[step.cmd.token].expiresAt
  /\ step.resp \notin TokenErrors

C21_OneResponsePerCommand ==
  /\ [](\A i, j \in 1..Len(pendingPermissions) :
          i # j => /\ pendingPermissions[i].id # pendingPermissions[j].id
                   /\ pendingPermissions[i].cmd.requestId # pendingPermissions[j].cmd.requestId)
  /\ [][Idle /\ step'.kind = "command"
        => /\ step'.resp # "none"
           /\ step'.cmd.requestId \in NextRequestIds
           /\ IF step'.resp = "Pending"
              THEN \E e \in {pendingPermissions'[Len(pendingPermissions')]} :
                     /\ pendingPermissions' = Append(pendingPermissions, e)
                     /\ e.cmd.requestId = step'.cmd.requestId
                     /\ e.cmd.origin = step'.cmd.origin
              ELSE pendingPermissions' = pendingPermissions]_vars
  /\ [][Idle /\ step'.kind \in {"decision", "timeout", "popupFailed"}
        => \/ /\ step'.resp = "PermissionNotFound"
              /\ pendingPermissions' = pendingPermissions
           \/ \E i \in 1..Len(pendingPermissions) :
                /\ pendingPermissions' = SelectSeq(pendingPermissions,
                                                   LAMBDA e : e.id # pendingPermissions[i].id)
                /\ step'.cmd = pendingPermissions[i].cmd
                /\ step'.resp \notin {"none", "Pending"}]_vars
  /\ [][pendingPermissions' # pendingPermissions
        => Idle /\ step'.kind \in {"command", "decision", "timeout", "popupFailed"}]_vars
  /\ \A id \in 1..MaxApprovals : (id \in PendingIds) ~> (step.kind # "command" /\ id \notin PendingIds)

\* The later of two waiting commands was answered first, under its own
\* requestId.
C21_LaterAnsweredFirst ==
  /\ step.kind = "decision"
  /\ Len(pendingPermissions) = 1
  /\ step.cmd.requestId > pendingPermissions[1].cmd.requestId
  /\ step.resp \notin {"none", "Pending"}

\* C22: a tool that throws, or whose message is not delivered, or that
\* answers with an error, fails its own command only: the step keeps every
\* session with its tab set, every token and the clock, so the same token and
\* session pass the same checks afterwards; the grants and the policies change
\* only as the approval that released the command says.
C22_FailureIsLocal ==
  [][(Idle /\ step'.resp \in {"ExecFailed", "ToolError"})
     => /\ step'.resp \in ErrorResponses
        /\ UNCHANGED <<sessionTokens, sessionCallerOrigins, now, activeTab>>
        /\ DOMAIN sessions' = DOMAIN sessions
        /\ \A s \in DOMAIN sessions :
             /\ sessions'[s].tabIds = sessions[s].tabIds
             /\ sessions'[s].callerOrigin = sessions[s].callerOrigin
             /\ sessions'[s].grantedOrigins =
                  IF step'.kind = "decision" /\ s = step'.sessionId
                  THEN sessions[s].grantedOrigins \cup {step'.request.targetOrigin}
                  ELSE sessions[s].grantedOrigins
        /\ policies' = IF step'.kind = "decision" /\ step'.remember
                       THEN policies \cup {step'.request} ELSE policies]_vars

\* A click that was approved with remember failed in DomCore while a session
\* owns a tab and holds a grant.
C22_ApprovedClickFailed ==
  /\ step.kind = "decision"
  /\ step.allow /\ step.remember
  /\ step.resp \in {"ExecFailed", "ToolError"}
  /\ step.cmd.tool = "click"
  /\ \E s \in DOMAIN sessions : sessions[s].tabIds # {} /\ sessions[s].grantedOrigins # {}

\* C23 (as claimed): click or type runs in a page only if the page's origin is
\* the target origin of the permission request that was allowed for the
\* command; a command whose tab moved to another origin after the request was
\* made is rejected.
C23_ExecutedOnPermittedOrigin ==
  (step.executed /\ step.cmd.tool \in {"click", "type"})
  => step.pageOrigin = step.request.targetOrigin

\* C24 (as claimed): no evaluate call ever runs in a page, whatever commands
\* a client sends, and evaluate is not in the service worker's list of
\* sensitive actions.
C24_EvaluateNeverRuns ==
  step.cmd.tool = "evaluate"
  => /\ ~step.executed
     /\ step.request.action = "evaluate" => "evaluate" \notin SensitiveTools

\* C25: a restart of the service worker leaves no session, no token, no used
\* nonce and no pending approval; afterwards a command that carries a token
\* issued before the restart is refused as invalid, and a decision for an
\* approval that was pending before the restart finds nothing and changes
\* nothing.
C25_RestartLosesState ==
  /\ [][(Idle /\ step'.kind = "restart")
        => /\ sessions' = <<>> /\ sessionCallerOrigins' = <<>>
           /\ sessionTokens' = <<>>
           /\ usedNonces' = <<>>
           /\ pendingRequests' = <<>>
           /\ pendingPermissions' = <<>>]_vars
  /\ [][(/\ Idle /\ step'.kind = "command" /\ step'.swAccepted
         /\ step'.cmd.type # "connect"
         /\ step'.cmd.token \in DOMAIN tokenSession \ DOMAIN sessionTokens)
        => /\ step'.resp = "TokenInvalid"
           /\ UNCHANGED <<sessions, sessionTokens, pendingPermissions, policies, tabs>>]_vars
  /\ [][(/\ Idle /\ step'.kind = "decision"
         /\ pendingPermissions = <<>>)
        => /\ step'.resp = "PermissionNotFound"
           /\ step'.effect = "none"
           /\ UNCHANGED <<sessions, sessionTokens, pendingPermissions, policies, tabs>>]_vars

\* After a restart the decision for an approval that had been asked for finds
\* nothing, and the token of the session that asked is gone.
C25_StaleDecision ==
  /\ step.kind = "decision"
  /\ step.resp = "PermissionNotFound"
  /\ nextPermission > 1
  /\ sessions = <<>>
  /\ DOMAIN tokenSession # {} /\ sessionTokens = <<>>

\* C26 (as claimed): a restart of the service worker keeps the policies that
\* remembered approvals created, so that the remembered request of a new
\* session is still allowed without a prompt.
C26_PolicySurvivesRestart ==
  [][(Idle /\ step'.kind = "restart") => policies' = policies]_vars

\* C27: the pending approvals are stored in the order they were asked for; a
\* getPendingPermission query answers null iff none is pending and otherwise
\* returns the one asked for first among those still pending, so a later one
\* is returned only when every earlier one is resolved; the query changes
\* nothing.
C27_OldestPendingExposed ==
  /\ [](\A i, j \in 1..Len(pendingPermissions) :
          i < j => /\ pendingPermissions[i].id < pendingPermissions[j].id
                   /\ pendingPermissions[i].createdAt <= pendingPermissions[j].createdAt)
  /\ [][(Idle /\ step'.kind = "query")
        => /\ (step'.resp = "null") <=> (PendingIds = {})
           /\ PendingIds # {}
              => /\ step'.resp = "Pending"
                 /\ step'.permissionId \in PendingIds
                 /\ \A id \in PendingIds : step'.permissionId <= id
                 /\ step'.request = PendingOf(step'.permissionId).request
                 /\ step'.sessionId = PendingOf(step'.permissionId).sessionId
           /\ UNCHANGED <<swVars, csNonces, envVars>>]_vars

\* Two approvals are pending and the query returned the first; the second
\* stays hidden.
C27_SecondHidden ==
  /\ step.kind = "query"
  /\ Len(pendingPermissions) = 2
  /\ step.permissionId = pendingPermissions[1].id
  /\ step.permissionId # pendingPermissions[2].id

\* C28: a command whose request is allowed by the session's grant or by a
\* policy goes on at once and creates no pending approval (so no popup and no
\* timer); it leaves the policy store and the grantedOrigins of every session
\* as they were: an allow by policy does not grant the origin to the session.
C28_AutoAllowHasNoSideEffect ==
  [][LET r == step'.request
         sid == step'.sessionId
         bySession == sid \in DOMAIN sessions /\ r.targetOrigin \in sessions[sid].grantedOrigins
         byPolicy == r \in policies
     IN (Idle /\ step'.kind = "command" /\ r # NoRequest /\ (bySession \/ byPolicy))
        => /\ step'.resp # "Pending"
           /\ pendingPermissions' = pendingPermissions
           /\ nextPermission' = nextPermission
           /\ policies' = policies
           /\ DOMAIN sessions' = DOMAIN sessions
           /\ \A s \in DOMAIN sessions : sessions'[s].grantedOrigins = sessions[s].grantedOrigins]_vars

\* A navigate was allowed by a policy alone, and the session still holds no
\* grant for the target origin.
C28_PolicyAllowLeavesNoGrant ==
  /\ step.kind = "command"
  /\ step.effect = "tabUpdated"
  /\ step.request \in policies
  /\ step.sessionId \in DOMAIN sessions
  /\ step.request.targetOrigin \notin sessions[step.sessionId].grantedOrigins

\* C29: the checks of a command run in the order nonce, token (not for
\* connect), tab ownership, permission, dispatch: a command with a missing or
\* reused nonce is answered with a nonce error whatever else it carries (a
\* message the content script finds no command in is answered by the content
\* script after its own nonce check); one
\* with a fresh nonce and a failing token with the token error; an execute
\* with a valid token that names a tab its session does not own with
\* TabAccessDenied. A command rejected at one of these three checks creates
\* no pending approval, asks for nothing, and creates and dispatches nothing;
\* a command that asks, creates or dispatches has passed all three.
C29_PipelineOrder ==
  [][(Idle /\ step'.kind = "command") =>
       LET c == step'.cmd
           r == step'.resp
           csReused == c.nonce = NoNonce \/ InSeq(c.nonce, csNonces)
           reused == csReused \/ InSeq(c.nonce, usedNonces)
           tokenRead == c.type \notin {"connect", "unread"}
           badToken == tokenRead /\ TokenCheck(c.token, c.origin) # "ok"
           onTab == c.type = "execute" /\ HasSession(c.sessionId)
                      /\ ~(c.tool = "navigate" /\ c.tabId \in {NoTab, PlaceholderTabId})
           unowned == onTab /\ ResolvedTab(c.tabId) # NoTab
                        /\ ~IsTabInSession(c.sessionId, ResolvedTab(c.tabId))
           negotiated == \/ pendingPermissions' # pendingPermissions
                         \/ nextPermission' # nextPermission
                         \/ step'.request # NoRequest
           acted == step'.effect # "none" \/ tabs' # tabs \/ step'.executed
       IN /\ (csReused \/ (reused /\ r # "InvalidCommand")) => r \in NonceErrors
          /\ (~reused /\ badToken) => r = TokenCheck(c.token, c.origin)
          /\ (~reused /\ tokenRead /\ ~badToken /\ unowned) => r = "TabAccessDenied"
          /\ r \in NonceErrors \cup TokenErrors \cup {"TabAccessDenied"} => ~negotiated /\ ~acted
          /\ (negotiated \/ acted) => ~reused /\ ~badToken /\ ~unowned]_vars
\* C29 witness: a click on a tab of another session is refused while an
\* approval of another command is pending, and the pending approvals are the
\* one that was there.
C29_RefusedBesidePending ==
  /\ step.kind = "command" /\ step.resp = "TabAccessDenied" /\ step.cmd.tool = "click"
  /\ Len(pendingPermissions) = 1
  /\ pendingPermissions[1].cmd.tabId # step.cmd.tabId

\* C30: a createTab, listTabs or execute command that names a sessionId for
\* which no session exists is answered InvalidSession, and it asks for no
\* permission, creates no tab and dispatches no tool.
C30_UnknownSessionRejected ==
  (/\ step.kind = "command" /\ step.swAccepted
   /\ step.cmd.type \in {"createTab", "listTabs", "execute"}
   /\ step.resp \notin TokenErrors
   /\ step.cmd.sessionId # NoSession /\ ~HasSession(step.cmd.sessionId))
  => /\ step.resp = "InvalidSession"
     /\ step.request = NoRequest
     /\ step.effect = "none"

C32_ToolOnlyOnExpectedOrigin ==
  /\ step.executed => step.expectedOrigin = step.pageOrigin
  /\ (step.kind = "tool" /\ step.expectedOrigin # step.pageOrigin)
       => step.resp = "OriginMismatch"

\* C33 (as claimed): a command with a read-only tool (snapshot, waitFor,
\* consoleMessages) builds no permission request and waits for no approval,
\* and its tool is dispatched to a tab only if the command carried a valid
\* token and the tab is in the tab set of the session the command names.
C33_ReadOnlyScopedToSession ==
  (step.kind = "command" /\ step.cmd.tool \in {"snapshot", "waitFor", "consoleMessages"})
  => /\ step.request = NoRequest /\ step.resp # "Pending"
     /\ step.effect = "toolDispatched"
          => /\ step.cmd.token \in DOMAIN sessionTokens
             /\ IsTabInSession(step.cmd.sessionId, step.tab)

\* C34: a pending approval is resolved exactly once. Its id is new when it is
\* created and is never used again; the step that removes it is the user's
\* decision, the 30 s timeout or the popup failure, removes that one entry and
\* settles the command that waited; every such step removes an entry. A
\* decision for an id that is not pending (it timed out, or was never given
\* out) is answered PermissionNotFound and changes no session, no policy and
\* no pending approval; a timeout or a popup failure grants nothing.
C34_ResolvedExactlyOnce ==
  [][LET gone == PendingIds \ {pendingPermissions'[i].id : i \in 1..Len(pendingPermissions')}
         new == {pendingPermissions'[i].id : i \in 1..Len(pendingPermissions')} \ PendingIds
         resolution == Idle /\ step'.kind \in {"decision", "timeout", "popupFailed"}
     IN /\ nextPermission' >= nextPermission
        /\ \A id \in PendingIds : id < nextPermission
        /\ new # {} => new = {nextPermission} /\ nextPermission' = nextPermission + 1 /\ gone = {}
        /\ gone # {} => /\ Cardinality(gone) = 1
                        /\ Len(pendingPermissions') = Len(pendingPermissions) - 1
                        /\ resolution
                        /\ step'.resp \notin {"Pending", "PermissionNotFound"}
                        /\ \A id \in gone : /\ step'.cmd = PendingOf(id).cmd
                                             /\ step'.request = PendingOf(id).request
        /\ (resolution /\ step'.resp # "PermissionNotFound") => gone # {}
        /\ (resolution /\ step'.resp = "PermissionNotFound")
             => /\ step'.permissionId \notin PendingIds
                /\ UNCHANGED <<sessions, policies, pendingPermissions, approved, tabs>>
        /\ (resolution /\ step'.kind # "decision")
             => UNCHANGED <<sessions, policies, approved, tabs>>]_vars
\* C34 witness: the popup decides on an approval that was given out, 30 s
\* ago or longer, and is no longer pending; nothing was ever approved.
C34_DecisionAfterTimeout ==
  /\ step.kind = "decision" /\ step.resp = "PermissionNotFound"
  /\ step.permissionId < nextPermission
  /\ now >= ApprovalTimeoutMs
  /\ approved = {} /\ policies = {}
  /\ \A s \in DOMAIN sessions : sessions[s].grantedOrigins = {}

\* C35: a nonce is consumed when it passes a nonce check, whatever happens to
\* the command afterwards: after every command that carried a nonce the
\* content script's set holds the nonce, and the service worker's set holds
\* it if the command was forwarded and passed the check there. A message
\* whose nonce the content script's set holds is answered ReplayDetected and
\* is not forwarded (the service worker's state stays as it was); a forwarded
\* command whose nonce the service worker's set holds is answered
\* InvalidNonce and changes nothing else.
C35_NonceConsumedFirst ==
  /\ []((step.kind = "command" /\ step.cmd.nonce # NoNonce)
          => /\ InSeq(step.cmd.nonce, csNonces)
             /\ step.swAccepted => InSeq(step.cmd.nonce, usedNonces))
  /\ [][(Idle /\ step'.kind = "command") =>
          /\ InSeq(step'.cmd.nonce, csNonces)
               => /\ step'.resp = "ReplayDetected" /\ ~step'.swAccepted
                  /\ UNCHANGED <<swVars, csNonces, envVars, idVars, histVars>>
          /\ (step'.cmd.nonce # NoNonce /\ ~InSeq(step'.cmd.nonce, csNonces)
                /\ InSeq(step'.cmd.nonce, usedNonces) /\ step'.resp # "InvalidCommand")
               => /\ step'.resp = "InvalidNonce" /\ ~step'.swAccepted
                  /\ UNCHANGED <<swVars, envVars, idVars, histVars>>
          /\ step'.swAccepted
               => ~InSeq(step'.cmd.nonce, csNonces) /\ ~InSeq(step'.cmd.nonce, usedNonces)]_vars
\* C35 witness: no session was ever created, both sets hold the nonce of a
\* command that was forwarded and rejected for its token, and the message
\* sent again is answered ReplayDetected.
C35_ResentAfterTokenError ==
  /\ step.kind = "command" /\ step.resp = "ReplayDetected"
  /\ sessions = <<>>
  /\ InSeq(step.cmd.nonce, usedNonces)

\* C36: a response that the content script posts and that contains a session
\* token is posted to the origin the token is bound to, which is the
\* event.origin of the connect command it answers; a response posted to
\* another origin or to '*' contains no session token.
C36_TokenOnlyToItsOrigin ==
  /\ (step.target # NoOrigin /\ step.token # NoToken)
       => /\ step.token \in DOMAIN sessionTokens
          /\ step.target = sessionTokens[step.token].origin
          /\ step.target = step.cmd.origin /\ step.cmd.type = "connect"
  /\ step.target = Wildcard => step.token = NoToken
  /\ step.kind \in {"command", "init", "wakeUp"} => step.target # NoOrigin
\* C36 witness: the second connect of a run is answered with its token,
\* posted to the local page that sent it, while another origin holds a token.
C36_TokenPostedToConnector ==
  /\ step.kind = "command" /\ step.resp = "Connected"
  /\ step.token # NoToken /\ step.target = LocalOrigin
  /\ \E t \in DOMAIN sessionTokens : sessionTokens[t].origin = AppOrigin

\* C37: the bridge page keeps the first session token it received: a token
\* of a later connect response never replaces it. Every command the page
\* forwards carries that token and a nonce that was not used before. Once
\* the token is invalid (expired, or forgotten by a restart) it stays
\* invalid, and every command other than connect that the page forwards is
\* rejected with a token error and changes nothing.
C37_BridgeKeepsFirstToken ==
  [][\A o \in {AppOrigin, LocalOrigin} :
       LET tok == SessionTokenRef(o)
           later == {t \in DOMAIN tokenSession' : attested'[tokenSession'[t]] = o}
           stale == tok # NoToken /\ TokenCheck(tok, o) # "ok"
       IN /\ tok # NoToken => /\ tok \in later
                              /\ \A t \in later : tok <= t
          /\ stale => (tok \notin DOMAIN sessionTokens' \/ sessionTokens'[tok].expiresAt < now')
          /\ (Idle /\ step'.kind = "command" /\ step'.cmd.origin = o)
               => /\ step'.cmd.token = tok
                  /\ step'.cmd.nonce # NoNonce
                  /\ ~InSeq(step'.cmd.nonce, csNonces) /\ ~InSeq(step'.cmd.nonce, usedNonces)
                  /\ (stale /\ step'.cmd.type # "connect")
                       => /\ step'.resp = "TokenInvalid"
                          /\ UNCHANGED <<sessions, sessionTokens, pendingPermissions, tabs, policies>>]_vars
\* C37 witness: after a restart the page connected again and a valid token
\* of its origin exists, but the command it forwards carries the first
\* token and is rejected.
C37_RejectedDespiteNewToken ==
  /\ step.kind = "command" /\ step.resp = "TokenInvalid" /\ step.cmd.type # "connect"
  /\ step.cmd.token \notin DOMAIN sessionTokens
  /\ \E t \in DOMAIN sessionTokens :
       /\ sessionTokens[t].origin = step.cmd.origin
       /\ step.cmd.token < t
       /\ TokenCheck(t, step.cmd.origin) = "ok"

\* C38: pendingRequests changes only when a command other than connect that
\* passed the nonce checks and the token validation and carries a requestId
\* and a tabId is recorded under its requestId with its origin, the time and
\* its tabId; right after the insertion no record is older than one hour,
\* and the records that went are exactly the ones that were older.
C38_PendingRequestBookkeeping ==
  [][LET c == step'.cmd
         tracked == /\ Idle /\ step'.kind = "command" /\ step'.swAccepted
                    /\ c.type = "execute" /\ TokenCheck(c.token, c.origin) = "ok"
                    /\ c.requestId # NoRequestId /\ c.tabId # NoTab
     IN /\ pendingRequests' # pendingRequests => tracked
        /\ tracked
             => /\ c.requestId \in DOMAIN pendingRequests'
                /\ pendingRequests'[c.requestId] = [origin |-> c.origin, timestamp |-> now, tabId |-> c.tabId]
                /\ \A r \in DOMAIN pendingRequests' : pendingRequests'[r].timestamp >= now - OneHourMs
                /\ \A r \in DOMAIN pendingRequests' \ {c.requestId} :
                     r \in DOMAIN pendingRequests /\ pendingRequests'[r] = pendingRequests[r]
                /\ \A r \in DOMAIN pendingRequests \ DOMAIN pendingRequests' :
                     pendingRequests[r].timestamp < now - OneHourMs]_vars
\* C38 witness: request 2 was sent while request 1 was on record, more than
\* an hour after it; request 2 is recorded and the record of request 1 went.
C38_OldRecordPruned ==
  /\ step.kind = "command" /\ step.cmd.requestId = 2
  /\ DOMAIN pendingRequests = {2}
  /\ pendingRequests[2].timestamp = now /\ now > OneHourMs

====
